---- MODULE Spec2Model ----
(***************************************************************************)
(* Model of apps/backend/app/video_analyzer_v2.py (class VideoAnalyzer):   *)
(* the analyze_video pipeline (frame sampling, pose extraction,            *)
(* compensation analysis, key-moment extraction and drawing) and the       *)
(* degraded mode.                                                          *)
(*                                                                         *)
(* Numbers.  The source computes with Python floats, which are IEEE 754    *)
(* binary64 values.  A float is modelled here as the record [s, m, e] of   *)
(* its value (-1)^s * m * 2^e, with m a natural number held as a sequence  *)
(* of 14-bit limbs, and +, -, *, /, abs, int() and the comparisons are     *)
(* computed on these records with the rounding of binary64 (to nearest,    *)
(* ties to even, 53 significant bits).  Infinities, NaN, subnormal results *)
(* and the sign of zero do not occur in the computations of the source on  *)
(* coordinates, times and frame rates, and are not represented.  The int 0 *)
(* that the source takes when fps is not positive is the float zero here:  *)
(* it compares and computes as 0.0 does.                                   *)
(***************************************************************************)
EXTENDS Integers, Sequences, FiniteSets, TLC

VARIABLES
    pc,             \* position of the invocation
    path_exists,    \* video_path.exists()
    detector,       \* self.detector is set (MediaPipe initialised)
    cap,            \* decode handle of the sampling loop (line 88)
    cap2,           \* decode handle of _extract_key_moments (line 300)
    fps,            \* cap.get(CAP_PROP_FPS)
    total_frames,   \* int(cap.get(CAP_PROP_FRAME_COUNT))
    frame_count,    \* index of the next frame read by the sampling loop
    detect_log,     \* log of the detections attempted: frame index and outcome
    keypoints_data, \* frame records collected so far / argument of the analysis
    analysis,       \* result of _analyze_compensation
    key_moments,    \* key moments appended so far
    reseeks,        \* log of the cap.set / cap.read calls of _extract_key_moments
    images,         \* names of the image files written by cv2.imwrite
    frame_shape,    \* <<h, w>> of the frames of the opened video
    key_metrics,    \* metrics handed to _extract_key_moments (line 145)
    key_frame,      \* frame handed to _draw_skeleton_on_frame, after the call
    annotated_frame, \* array returned by _draw_skeleton_on_frame (line 315)
    report,         \* value returned by analyze_video
    error           \* exception that left analyze_video

vars == <<pc, path_exists, detector, cap, cap2, fps, total_frames, frame_count,
          detect_log, keypoints_data, analysis, key_moments, reseeks, images,
          frame_shape, key_metrics, key_frame, annotated_frame, report, error>>

----------------------------------------------------------------------------
(* Bounds *)

\* frames the sampling loop may read from one video
MaxFrames == 5
\* length of the frame-record sequences handed directly to _analyze_compensation
MaxRecs == 2

----------------------------------------------------------------------------
(* Natural numbers of any size: little-endian sequences of limbs, the last *)
(* limb non-zero; << >> is 0                                               *)

LimbBits == 14
Limb == 16384
Pow2(k) == 2^k

At(a, i) == IF i >= 1 /\ i <= Len(a) THEN a[i] ELSE 0

RECURSIVE BTrim(_)
BTrim(a) ==
    IF a = << >> THEN a
    ELSE IF a[Len(a)] # 0 THEN a
    ELSE BTrim(SubSeq(a, 1, Len(a) - 1))

\* number of bits of an integer 0 <= x < 2^31
IntBits(x) ==
    CHOOSE k \in 0..31 : (k = 31 \/ Pow2(k) > x) /\ (k = 0 \/ Pow2(k - 1) <= x)
BitLen(a) == IF a = << >> THEN 0 ELSE LimbBits * (Len(a) - 1) + IntBits(a[Len(a)])

\* a * 2^d
BShl(a, d) ==
    LET q == d \div LimbBits
        r == d % LimbBits
    IN  BTrim([i \in 1..(Len(a) + q + 1) |->
                 IF i <= q THEN 0
                 ELSE ((At(a, i - q) % Pow2(LimbBits - r)) * Pow2(r))
                      + (At(a, i - q - 1) \div Pow2(LimbBits - r))])

\* a \div 2^d
BShr(a, d) ==
    LET q == d \div LimbBits
        r == d % LimbBits
        n == IF Len(a) > q THEN Len(a) - q ELSE 0
    IN  BTrim([i \in 1..n |->
                 (a[i + q] \div Pow2(r))
                 + ((At(a, i + q + 1) % Pow2(r)) * Pow2(LimbBits - r))])

\* a % 2^d = 0
BLowZero(a, d) ==
    /\ \A i \in 1..Len(a) : i <= d \div LimbBits => a[i] = 0
    /\ At(a, (d \div LimbBits) + 1) % Pow2(d % LimbBits) = 0

\* bit k of a
BBit(a, k) == (At(a, (k \div LimbBits) + 1) \div Pow2(k % LimbBits)) % 2

RECURSIVE BAddC(_, _, _, _)
BAddC(a, b, i, c) ==
    IF i > Len(a) /\ i > Len(b)
    THEN IF c = 0 THEN << >> ELSE <<c>>
    ELSE LET s == At(a, i) + At(b, i) + c
         IN  <<s % Limb>> \o BAddC(a, b, i + 1, s \div Limb)
BAdd(a, b) == BAddC(a, b, 1, 0)

\* a - b for a >= b
RECURSIVE BSubC(_, _, _, _)
BSubC(a, b, i, c) ==
    IF i > Len(a) THEN << >>
    ELSE LET s == At(a, i) - At(b, i) - c
         IN  <<(s + Limb) % Limb>> \o BSubC(a, b, i + 1, IF s < 0 THEN 1 ELSE 0)
BSub(a, b) == BTrim(BSubC(a, b, 1, 0))

\* -1, 0 or 1 as a < b, a = b or a > b
RECURSIVE BCmpAt(_, _, _)
BCmpAt(a, b, i) ==
    IF i = 0 THEN 0
    ELSE IF a[i] > b[i] THEN 1
    ELSE IF a[i] < b[i] THEN -1
    ELSE BCmpAt(a, b, i - 1)
BCmp(a, b) ==
    IF Len(a) > Len(b) THEN 1
    ELSE IF Len(a) < Len(b) THEN -1
    ELSE BCmpAt(a, b, Len(a))

\* a * b, for a and b of at most 4 limbs
RECURSIVE BCoef(_, _, _, _)
BCoef(a, b, k, i) ==
    IF i > Len(a) \/ i > k THEN 0
    ELSE a[i] * At(b, k + 1 - i) + BCoef(a, b, k, i + 1)
RECURSIVE BCarry(_, _, _)
BCarry(c, i, carry) ==
    IF i > Len(c)
    THEN IF carry = 0 THEN << >>
         ELSE <<carry % Limb>> \o (IF carry >= Limb THEN <<carry \div Limb>> ELSE << >>)
    ELSE LET v == c[i] + carry
         IN  <<v % Limb>> \o BCarry(c, i + 1, v \div Limb)
BMul(a, b) ==
    IF a = << >> \/ b = << >> THEN << >>
    ELSE BTrim(BCarry([k \in 1..(Len(a) + Len(b) - 1) |-> BCoef(a, b, k, 1)], 1, 0))
BMulLimb(a, k) == IF k = 0 THEN << >> ELSE BMul(a, <<k>>)

RECURSIVE BFromInt(_)
BFromInt(n) == IF n = 0 THEN << >> ELSE <<n % Limb>> \o BFromInt(n \div Limb)
RECURSIVE BToIntAt(_, _)
BToIntAt(a, i) == IF i > Len(a) THEN 0 ELSE a[i] + Limb * BToIntAt(a, i + 1)
BToInt(a) == BToIntAt(a, 1)

\* the largest digit, at most qhat, whose multiple of d is at most r
RECURSIVE BFit(_, _, _)
BFit(r, d, qhat) ==
    IF BCmp(BMulLimb(d, qhat), r) <= 0 THEN qhat ELSE BFit(r, d, qhat - 1)
\* r \div d for r < d * Limb, the top bit of the top limb of d being set
BDigit(r, d) ==
    LET est == (At(r, Len(d) + 1) * Limb + At(r, Len(d))) \div d[Len(d)]
    IN  BFit(r, d, IF est >= Limb THEN Limb - 1 ELSE est)
\* the first n base-Limb digits of r / d after the point, for r < d, and
\* the remainder (the digits are listed last digit first)
RECURSIVE BDivDigits(_, _, _)
DivCons(dg, rest) == [q |-> rest.q \o <<dg>>, r |-> rest.r]
DivNext(r1, d, n, dg) ==
    DivCons(dg, BDivDigits(IF dg = 0 THEN r1 ELSE BSub(r1, BMulLimb(d, dg)), d, n - 1))
DivStep(r1, d, n) == DivNext(r1, d, n, BDigit(r1, d))
BDivDigits(r, d, n) ==
    IF n = 0 \/ r = << >> THEN [q |-> [i \in 1..n |-> 0], r |-> r]
    ELSE DivStep(BShl(r, LimbBits), d, n)

\* number of zero bits below the lowest set bit of a # 0, from limb i on
RECURSIVE TrailingZeros(_, _)
TrailingZeros(a, i) ==
    IF a[i] = 0 THEN LimbBits + TrailingZeros(a, i + 1)
    ELSE CHOOSE k \in 0..LimbBits : a[i] % Pow2(k + 1) # 0 /\ a[i] % Pow2(k) = 0

----------------------------------------------------------------------------
(* Python floats *)

\* 0.0
Zero == [s |-> 0, m |-> << >>, e |-> 0]
IsZero(a) == a.m = << >>

\* the float (-1)^s * n * 2^e of a number n of at most 53 bits, m odd
CanonBy(s, n, e, tz) == [s |-> s, m |-> BShr(n, tz), e |-> e + tz]
Canon(s, n, e) ==
    IF n = << >> THEN Zero ELSE CanonBy(s, n, e, TrailingZeros(n, 1))

\* significant bits of a binary64 value
MantBits == 53
\* the low bits a number of len bits loses when it is rounded
RoundShift(len) == IF len <= MantBits THEN 0 ELSE len - MantBits
\* q, the bits of n above the low sh bits, rounded by the bits below: up
\* when they are over half, or half and q is odd
RoundQ(n, sh, q) ==
    IF BBit(n, sh - 1) = 1 /\ (~BLowZero(n, sh - 1) \/ q[1] % 2 = 1)
    THEN BAdd(q, <<1>>)
    ELSE q
RoundBy(s, n, e, sh) ==
    Canon(s, IF sh = 0 THEN n ELSE RoundQ(n, sh, BShr(n, sh)), e + sh)
\* the float nearest to (-1)^s * n * 2^e, ties to the even significand
Round(s, n, e) == RoundBy(s, n, e, RoundShift(BitLen(n)))

\* -a and abs(a)
FNeg(a) == IF IsZero(a) THEN a ELSE [a EXCEPT !.s = 1 - a.s]
FAbs(a) == [a EXCEPT !.s = 0]

\* the lesser exponent of two floats
MinExp(a, b) == IF a.e < b.e THEN a.e ELSE b.e
\* the significand of a at the exponent e <= a.e
Aligned(a, e) == BShl(a.m, a.e - e)

\* -1, 0 or 1 as |a| < |b|, |a| = |b| or |a| > |b|
MagCmpTop(a, b, ta, tb) ==
    IF ta > tb THEN 1
    ELSE IF ta < tb THEN -1
    ELSE BCmp(Aligned(a, MinExp(a, b)), Aligned(b, MinExp(a, b)))
MagCmp(a, b) ==
    IF IsZero(a) THEN (IF IsZero(b) THEN 0 ELSE -1)
    ELSE IF IsZero(b) THEN 1
    ELSE MagCmpTop(a, b, BitLen(a.m) + a.e, BitLen(b.m) + b.e)

\* -1, 0 or 1 as a < b, a == b or a > b
FCmp(a, b) ==
    IF a.s # b.s THEN (IF a.s = 1 THEN -1 ELSE 1)
    ELSE (IF a.s = 0 THEN 1 ELSE -1) * MagCmp(a, b)
\* a > b
FGT(a, b) == FCmp(a, b) = 1

\* the sum of (-1)^sa * na and (-1)^sb * nb, times 2^e, c comparing na
\* with nb
AddAligned(sa, na, sb, nb, e, c) ==
    Round(IF sa = sb \/ c > 0 THEN sa ELSE sb,
          IF sa = sb THEN BAdd(na, nb)
          ELSE IF c > 0 THEN BSub(na, nb)
          ELSE BSub(nb, na),
          e)
AddAt(a, b, e, na, nb) == AddAligned(a.s, na, b.s, nb, e, BCmp(na, nb))
\* a + b
FAdd(a, b) ==
    IF IsZero(a) THEN b
    ELSE IF IsZero(b) THEN a
    ELSE AddAt(a, b, MinExp(a, b), Aligned(a, MinExp(a, b)), Aligned(b, MinExp(a, b)))
\* a - b
FSub(a, b) == FAdd(a, FNeg(b))

\* a * b
FMul(a, b) ==
    IF IsZero(a) \/ IsZero(b) THEN Zero
    ELSE Round((a.s + b.s) % 2, BMul(a.m, b.m), a.e + b.e)

\* what a division by 0.0 raises
ZeroDivisionError == "ZeroDivisionError"

\* base-Limb digits of a quotient computed before rounding
QuotDigits == 4
\* the quotient digits res, below a leading 1 when ge, with the sticky bit
\* of a remainder, rounded
DivSticky(s, e, quot, exact) ==
    Round(s, IF exact THEN quot ELSE BAdd(BShl(quot, 1), <<1>>),
          IF exact THEN e ELSE e - 1)
DivRound(s, e, ge, res) ==
    DivSticky(s, e, BTrim(res.q \o (IF ge THEN <<1>> ELSE << >>)), res.r = << >>)
\* top / bot, the two of the same length and the top bit of the top limb of
\* bot set
DivGe(s, top, bot, e, ge) ==
    DivRound(s, e, ge, BDivDigits(IF ge THEN BSub(top, bot) ELSE top, bot, QuotDigits))
DivQuot(s, top, bot, e) == DivGe(s, top, bot, e, BCmp(top, bot) >= 0)
DivShift(s, am, bot0, e, sh) == DivQuot(s, BShl(am, sh), BShl(bot0, sh), e)
DivNorm(s, am, bot0, e) ==
    DivShift(s, am, bot0, e, LimbBits - IntBits(bot0[Len(bot0)]))
\* the significands aligned to the same length, t bits apart
DivAlign(a, b, t) ==
    DivNorm((a.s + b.s) % 2,
            BShl(a.m, IF t < 0 THEN 0 - t ELSE 0),
            BShl(b.m, IF t > 0 THEN t ELSE 0),
            a.e - b.e + t - (QuotDigits * LimbBits))
\* a / b: the significands are aligned to the same length, the quotient is
\* taken to QuotDigits digits and a sticky bit, and rounded
FDiv(a, b) ==
    IF IsZero(b) THEN ZeroDivisionError
    ELSE IF IsZero(a) THEN Zero
    ELSE DivAlign(a, b, BitLen(a.m) - BitLen(b.m))

\* float(n) of an int |n| < 2^31
FromInt(n) == Canon(IF n < 0 THEN 1 ELSE 0, BFromInt(IF n < 0 THEN 0 - n ELSE n), 0)

\* the float a decimal literal of value n / d denotes: the float nearest
\* to n / d (0.05 is Dec(5, 100))
Dec(n, d) == FDiv(FromInt(n), FromInt(d))

\* the float literals of the source
F0_01 == Dec(1, 100)
F0_015 == Dec(15, 1000)
F0_02 == Dec(2, 100)
F0_05 == Dec(5, 100)
F0_08 == Dec(8, 100)
F0_1 == Dec(1, 10)
F0_15 == Dec(15, 100)
F0_2 == Dec(2, 10)
F0_25 == Dec(25, 100)
F0_3 == Dec(3, 10)
F0_42 == Dec(42, 100)
F0_43 == Dec(43, 100)
F0_45 == Dec(45, 100)
F0_5 == Dec(5, 10)
F0_55 == Dec(55, 100)
F0_57 == Dec(57, 100)
F0_58 == Dec(58, 100)
F0_65 == Dec(65, 100)
F0_8 == Dec(8, 10)
F0_85 == Dec(85, 100)
F1_0 == Dec(1, 1)
F1_5 == Dec(15, 10)
F24_0 == Dec(24, 1)
F30_0 == Dec(30, 1)
F32_0 == Dec(32, 1)

\* int(a): truncation towards zero, for |a| < 2^31
FTrunc(a) ==
    (IF a.s = 1 THEN -1 ELSE 1)
        * BToInt(IF a.e >= 0 THEN BShl(a.m, a.e) ELSE BShr(a.m, 0 - a.e))

\* abs(x) of an int
Abs(x) == IF x < 0 THEN 0 - x ELSE x

None == [none |-> TRUE]

----------------------------------------------------------------------------
(* numpy *)

\* acc + a[lo] + ... + a[hi], added one after the other
RECURSIVE SumFrom(_, _, _, _)
SumFrom(a, lo, hi, acc) ==
    IF lo > hi THEN acc ELSE SumFrom(a, lo + 1, hi, FAdd(acc, a[lo]))

\* acc + a[i] + a[i + 8] + ... up to index last
RECURSIVE Lane(_, _, _, _)
Lane(a, i, last, acc) ==
    IF i > last THEN acc ELSE Lane(a, i + 8, last, FAdd(acc, a[i]))

\* the sums of neighbours r[1] + r[2], r[3] + r[4], ..., taken again on
\* the result until one sum is left: for 8 values
\* ((r1 + r2) + (r3 + r4)) + ((r5 + r6) + (r7 + r8))
RECURSIVE SumPairs(_)
SumPairs(r) ==
    IF Len(r) = 1 THEN r[1]
    ELSE SumPairs([k \in 1..(Len(r) \div 2) |-> FAdd(r[2 * k - 1], r[2 * k])])

\* the sum of the n >= 8 values from a[lo] on with 8 running sums
BlockSum(a, lo, n) ==
    SumFrom(a, lo + n - (n % 8), lo + n - 1,
            SumPairs([j \in 1..8 |->
                        Lane(a, lo + j + 7, lo + n - (n % 8) - 1, a[lo + j - 1])]))

\* np.add.reduce of the n values from a[lo] on: numpy's pairwise summation
\* (in order below 8 values, 8 running sums up to 128, halves above)
RECURSIVE PairwiseSum(_, _, _)
PairwiseSum(a, lo, n) ==
    IF n < 8 THEN SumFrom(a, lo, lo + n - 1, Zero)
    ELSE IF n <= 128 THEN BlockSum(a, lo, n)
    ELSE LET n2 == (n \div 2) - ((n \div 2) % 8)
         IN  FAdd(PairwiseSum(a, lo, n2), PairwiseSum(a, lo + n2, n - n2))

\* np.mean of a non-empty list of floats
Mean(s) == FDiv(PairwiseSum(s, 1, Len(s)), FromInt(Len(s)))

\* greatest of s[lo..hi] for lo <= hi, by halves
RECURSIVE MaxRange(_, _, _)
MaxRange(s, lo, hi) ==
    IF lo = hi THEN s[lo]
    ELSE LET mid == (lo + hi) \div 2
             a == MaxRange(s, lo, mid)
             b == MaxRange(s, mid + 1, hi)
         IN  IF FGT(b, a) THEN b ELSE a

\* np.max of a non-empty list of floats
Max(s) == MaxRange(s, 1, Len(s))

----------------------------------------------------------------------------
(* Landmarks and keypoints *)

\* POSE_LANDMARKS, in dict order: <<MediaPipe index, name>>
POSE_LANDMARKS == << <<0, "nose">>, <<11, "left_shoulder">>, <<12, "right_shoulder">>,
                     <<23, "left_hip">>, <<24, "right_hip">>,
                     <<25, "left_knee">>, <<26, "right_knee">>,
                     <<27, "left_ankle">>, <<28, "right_ankle">> >>

LandmarkIdx == {POSE_LANDMARKS[i][1] : i \in 1..Len(POSE_LANDMARKS)}

\* the coordinates a detector reports are written here in units of 1/Unit:
\* k stands for the float of the decimal k / Unit (100000 for 0.5)
Unit == 200000
Coord(k) == Dec(k, Unit)

Lm(x, y) == [x |-> Coord(x), y |-> Coord(y), z |-> Zero, visibility |-> Coord(Unit)]

\* a pose as the detector reports it: landmark index -> position (the nose
\* at y = 0.0875 and the shoulders at y = 0.25625, whose products by a frame
\* height of 720 and of 480 round below the integers 63 and 123)
PoseX(i, lhx, rhx) ==
    CASE i = 0  -> 100000
      [] i = 23 -> lhx
      [] i = 24 -> rhx
      [] i \in {11, 25, 27} -> 87500
      [] i \in {12, 26, 28} -> 112500
PoseY(i, lky, lay, rky, ray) ==
    CASE i = 0  -> 17500
      [] i \in {11, 12} -> 51250
      [] i \in {23, 24} -> 100000
      [] i = 25 -> lky
      [] i = 26 -> rky
      [] i = 27 -> lay
      [] i = 28 -> ray
Pose(lhx, rhx, lky, lay, rky, ray) ==
    [i \in LandmarkIdx |-> Lm(PoseX(i, lhx, rhx), PoseY(i, lky, lay, rky, ray))]

_extract_keypoints(pose_landmarks) ==
    [i \in 1..Len(POSE_LANDMARKS) |->
        LET landmark == pose_landmarks[POSE_LANDMARKS[i][1]] IN
        [name |-> POSE_LANDMARKS[i][2],
         x |-> landmark.x, y |-> landmark.y,
         z |-> landmark.z, visibility |-> landmark.visibility]]

\* complete poses handed to _analyze_compensation, by the x of the hips and
\* the y of the knees and ankles: centred hips and even knees; hips 0.5 and
\* 0.6, whose centre minus 0.5 is the float just above 0.05; hips 0.4 and
\* 0.5, whose centre minus 0.5 is just below 0.05 in size, with knees 0.3,
\* 0.4 and 0.8, 0.9, two depths of 0.1 in decimals whose float difference is
\* 2^-54; the left knee deeper by the float 0.08 exactly (0.02 to 0.1 against
\* no depth); the left knee deeper by the float just above 0.08 (0.3 to 0.7
\* against 0.38 to 0.7); hips 1/16 left with the left knee deeper by a float
\* just below 0.08 (0.3 to 0.8 against 0.38 to 0.8); hips 1/16 right with
\* the right knee deeper by 1/8; the left knee deeper by 1/8
CompletePoses ==
    { Pose(87500, 112500, 125000, 175000, 125000, 175000),
      Pose(100000, 120000, 125000, 175000, 125000, 175000),
      Pose(80000, 100000, 60000, 80000, 160000, 180000),
      Pose(87500, 112500, 4000, 20000, 20000, 20000),
      Pose(87500, 112500, 60000, 140000, 76000, 140000),
      Pose(75000, 100000, 60000, 160000, 76000, 160000),
      Pose(100000, 125000, 125000, 175000, 100000, 175000),
      Pose(87500, 112500, 100000, 175000, 125000, 175000) }

\* keypoint lists of complete poses
CompleteKeypoints == { _extract_keypoints(p) : p \in CompletePoses }

\* the keypoint list kps without the keypoints named in names
Without(kps, names) == SelectSeq(kps, LAMBDA kp : kp.name \notin names)

----------------------------------------------------------------------------
(* _analyze_compensation *)

\* line 190: {kp["name"]: kp for kp in frame_data["keypoints"]} (a later
\* keypoint of the same name replaces an earlier one)
ByName(kps) ==
    [n \in {kps[i].name : i \in DOMAIN kps} |->
        kps[CHOOSE i \in DOMAIN kps :
                /\ kps[i].name = n
                /\ \A j \in DOMAIN kps : kps[j].name = n => j <= i]]

RequiredNames == {"left_hip", "right_hip", "left_knee", "right_knee",
                  "left_ankle", "right_ankle"}

\* line 192: the frame is used iff all six names are present
Qualifies(frame_data) ==
    RequiredNames \subseteq DOMAIN ByName(frame_data.keypoints)

\* lines 196-201: (left_hip_x + right_hip_x) / 2 - 0.5
hip_shift_direction(frame_data) ==
    LET keypoints == ByName(frame_data.keypoints)
        left_hip_x == keypoints["left_hip"].x
        right_hip_x == keypoints["right_hip"].x
        hip_center_x == FDiv(FAdd(left_hip_x, right_hip_x), FromInt(2))
    IN  FSub(hip_center_x, F0_5)

\* lines 207-218
knee_depth_diff(frame_data) ==
    LET keypoints == ByName(frame_data.keypoints)
        left_knee_flexion  == FAbs(FSub(keypoints["left_knee"].y, keypoints["left_ankle"].y))
        right_knee_flexion == FAbs(FSub(keypoints["right_knee"].y, keypoints["right_ankle"].y))
    IN  FSub(left_knee_flexion, right_knee_flexion)

\* line 242 with the threshold 0.01
HIP_SHIFT_THRESHOLD_low == F0_01

HIP_SHIFT_THRESHOLD == F0_05
KNEE_ASYMMETRY_THRESHOLD == F0_08

\* lines 245-248 with the knee comparison written >=
compensation_detected_ge(max_hip_shift, max_knee_asymmetry) ==
    \/ FGT(max_hip_shift, HIP_SHIFT_THRESHOLD)
    \/ ~FGT(KNEE_ASYMMETRY_THRESHOLD, max_knee_asymmetry)

\* lines 245-248
compensation_detected(max_hip_shift, max_knee_asymmetry) ==
    \/ FGT(max_hip_shift, HIP_SHIFT_THRESHOLD)
    \/ FGT(max_knee_asymmetry, KNEE_ASYMMETRY_THRESHOLD)

\* line 237 with the comparison written >=
compensating_side_ge(avg_knee_depth) ==
    IF ~FGT(Zero, avg_knee_depth) THEN "left" ELSE "right"

\* line 237
compensating_side(avg_knee_depth) ==
    IF FGT(avg_knee_depth, Zero) THEN "left" ELSE "right"

\* line 240 with the comparison written >=
shift_direction_ge(avg_hip_direction) ==
    IF ~FGT(Zero, avg_hip_direction) THEN "right" ELSE "left"

\* line 240
shift_direction(avg_hip_direction) ==
    IF FGT(avg_hip_direction, Zero) THEN "right" ELSE "left"

\* line 256
Message(detected, side) ==
    IF detected
    THEN "Load shifts away from " \o side \o " leg - " \o side \o " side compensation detected"
    ELSE "No significant compensation detected"

\* lines 262-263
Recommendation(detected, side) ==
    IF detected
    THEN "Focus on loading " \o side \o " leg symmetrically during squats."
    ELSE "Continue current rehabilitation protocol."

\* the frames that pass the check of line 192, in order
QualifyingFrames(kd) == SelectSeq(kd, Qualifies)

hip_shift_directions(kd) ==
    LET q == QualifyingFrames(kd) IN [i \in 1..Len(q) |-> hip_shift_direction(q[i])]
hip_shifts(kd) ==
    LET q == QualifyingFrames(kd) IN [i \in 1..Len(q) |-> FAbs(hip_shift_direction(q[i]))]
knee_depth_diffs(kd) ==
    LET q == QualifyingFrames(kd) IN [i \in 1..Len(q) |-> knee_depth_diff(q[i])]
knee_asymmetries(kd) ==
    LET q == QualifyingFrames(kd) IN [i \in 1..Len(q) |-> FAbs(knee_depth_diff(q[i]))]

\* lines 258-274: the result
Result(detected, side, direction, avg_hip, max_hip, avg_knee, max_knee) ==
    [compensation_detected |-> detected,
     knee_flexion_angle |-> 32,
     message |-> Message(detected, side),
     recommendation |-> Recommendation(detected, side),
     compensating_side |-> side,
     shift_direction |-> direction,
     metrics |-> [avg_hip_shift |-> avg_hip,
                  max_hip_shift |-> max_hip,
                  avg_knee_asymmetry |-> avg_knee,
                  max_knee_asymmetry |-> max_knee,
                  compensating_side |-> side,
                  shift_direction |-> direction]]

\* lines 237-248: the side, the direction and the detection
Decide(avg_hip, max_hip, avg_knee, max_knee, avg_hip_direction, avg_knee_depth) ==
    Result(compensation_detected(max_hip, max_knee),
           compensating_side(avg_knee_depth),
           shift_direction(avg_hip_direction),
           avg_hip, max_hip, avg_knee, max_knee)

\* lines 225-232: the means and the maxima of the four lists
Aggregate(shifts, asymmetries, directions, depth_diffs) ==
    Decide(Mean(shifts), Max(shifts), Mean(asymmetries), Max(asymmetries),
           Mean(directions), Mean(depth_diffs))

\* lines 224-274: the result when hip_shifts and knee_asymmetries are not empty
Detection(kd) ==
    Aggregate(hip_shifts(kd), knee_asymmetries(kd),
              hip_shift_directions(kd), knee_depth_diffs(kd))

\* lines 174-279 without the early return of lines 178-182
_analyze_compensation_no_early_return(kd) ==
    IF QualifyingFrames(kd) # << >>
    THEN Detection(kd)
    ELSE [compensation_detected |-> FALSE,
          message |-> "Insufficient data for analysis"]

\* lines 174-279 with the message of lines 180-181 repeated at lines 277-278
_analyze_compensation_same_message(kd) ==
    IF QualifyingFrames(kd) # << >>
    THEN Detection(kd)
    ELSE [compensation_detected |-> FALSE,
          message |-> "No pose data available for analysis"]

\* lines 174-279: hip_shifts and knee_asymmetries get one value for each
\* qualifying frame, so both are non-empty iff a frame qualifies
_analyze_compensation(kd) ==
    IF kd = << >>
    THEN [compensation_detected |-> FALSE,
          message |-> "No pose data available for analysis"]
    ELSE IF hip_shifts(kd) # << >> /\ knee_asymmetries(kd) # << >>
    THEN Detection(kd)
    ELSE [compensation_detected |-> FALSE,
          message |-> "Insufficient data for analysis"]

----------------------------------------------------------------------------
(* _generate_mock_analysis *)

\* np.pi
Pi == [s |-> 0, m |-> <<1443, 10786, 1014, 201>>, e |-> -48]

\* the sine at the floats x = t * np.pi * 6 of line 471, frame = 0, 2, ...,
\* 718: the float nearest to the sine of x
SinTable == {
    [x |-> [s |-> 0, m |-> << >>, e |-> 0],
     sin |-> [s |-> 0, m |-> << >>, e |-> 0]],
    [x |-> [s |-> 0, m |-> <<13803, 9975, 14159, 857>>, e |-> -56],
     sin |-> [s |-> 0, m |-> <<9351, 4575, 7738, 857>>, e |-> -56]],
    [x |-> [s |-> 0, m |-> <<13803, 9975, 14159, 857>>, e |-> -55],
     sin |-> [s |-> 0, m |-> <<5595, 6972, 2434, 428>>, e |-> -54]],
    [x |-> [s |-> 0, m |-> <<10119, 11987, 3479, 40>>, e |-> -50],
     sin |-> [s |-> 0, m |-> <<4981, 7841, 8374, 1281>>, e |-> -55]],
    [x |-> [s |-> 0, m |-> <<13803, 9975, 14159, 857>>, e |-> -54],
     sin |-> [s |-> 0, m |-> <<11387, 6276, 9933, 851>>, e |-> -54]],
    [x |-> [s |-> 0, m |-> <<13157, 8373, 5411, 1072>>, e |-> -54],
     sin |-> [s |-> 0, m |-> <<12393, 12388, 4221, 66>>, e |-> -50]],
    [x |-> [s |-> 0, m |-> <<10119, 11987, 3479, 40>>, e |-> -49],
     sin |-> [s |-> 0, m |-> <<10575, 7359, 12019, 1265>>, e |-> -54]],
    [x |-> [s |-> 0, m |-> <<11867, 5169, 4299, 1501>>, e |-> -54],
     sin |-> [s |-> 0, m |-> <<13519, 8142, 15872, 366>>, e |-> -52]],
    [x |-> [s |-> 0, m |-> <<13803, 9975, 14159, 857>>, e |-> -53],
     sin |-> [s |-> 0, m |-> <<6865, 1048, 16274, 1665>>, e |-> -54]],
    [x |-> [s |-> 0, m |-> <<13973, 3194, 10439, 120>>, e |-> -50],
     sin |-> [s |-> 0, m |-> <<8815, 7254, 10353, 3>>, e |-> -45]],
    [x |-> [s |-> 0, m |-> <<13157, 8373, 5411, 1072>>, e |-> -53],
     sin |-> [s |-> 0, m |-> <<16383, 16383, 16383, 2047>>, e |-> -54]],
    [x |-> [s |-> 0, m |-> <<6417, 11978, 12806, 589>>, e |-> -52],
     sin |-> [s |-> 0, m |-> <<7623, 6000, 14011, 278>>, e |-> -51]],
    [x |-> [s |-> 0, m |-> <<10119, 11987, 3479, 40>>, e |-> -48],
     sin |-> [s |-> 0, m |-> <<11567, 2282, 14616, 601>>, e |-> -52]],
    [x |-> [s |-> 0, m |-> <<6095, 11177, 240, 697>>, e |-> -52],
     sin |-> [s |-> 0, m |-> <<15711, 2192, 6948, 644>>, e |-> -52]],
    [x |-> [s |-> 0, m |-> <<11867, 5169, 4299, 1501>>, e |-> -53],
     sin |-> [s |-> 0, m |-> <<379, 2929, 4873, 171>>, e |-> -50]],
    [x |-> [s |-> 0, m |-> <<1443, 10786, 1014, 201>>, e |-> -50],
     sin |-> [s |-> 0, m |-> <<3827, 9855, 633, 362>>, e |-> -51]],
    [x |-> [s |-> 0, m |-> <<13803, 9975, 14159, 857>>, e |-> -52],
     sin |-> [s |-> 0, m |-> <<8033, 4199, 16061, 760>>, e |-> -52]],
    [x |-> [s |-> 0, m |-> <<5449, 9575, 7876, 911>>, e |-> -52],
     sin |-> [s |-> 0, m |-> <<8999, 5206, 9747, 1591>>, e |-> -53]],
    [x |-> [s |-> 0, m |-> <<13973, 3194, 10439, 120>>, e |-> -49],
     sin |-> [s |-> 0, m |-> <<16021, 3531, 1775, 207>>, e |-> -50]],
    [x |-> [s |-> 0, m |-> <<5127, 8774, 11694, 1018>>, e |-> -52],
     sin |-> [s |-> 0, m |-> <<3063, 10414, 6542, 429>>, e |-> -51]],
    [x |-> [s |-> 0, m |-> <<13157, 8373, 5411, 1072>>, e |-> -52],
     sin |-> [s |-> 0, m |-> <<9813, 4272, 13271, 886>>, e |-> -52]],
    [x |-> [s |-> 0, m |-> <<5297, 1993, 7974, 281>>, e |-> -50],
     sin |-> [s |-> 0, m |-> <<2843, 7485, 3200, 456>>, e |-> -51]],
    [x |-> [s |-> 0, m |-> <<6417, 11978, 12806, 589>>, e |-> -51],
     sin |-> [s |-> 0, m |-> <<16277, 15357, 15418, 1870>>, e |-> -53]],
    [x |-> [s |-> 0, m |-> <<2241, 3586, 9665, 616>>, e |-> -51],
     sin |-> [s |-> 0, m |-> <<14341, 15358, 15936, 1911>>, e |-> -53]],
    [x |-> [s |-> 0, m |-> <<10119, 11987, 3479, 40>>, e |-> -47],
     sin |-> [s |-> 0, m |-> <<5375, 3345, 12513, 1947>>, e |-> -53]],
    [x |-> [s |-> 0, m |-> <<4159, 6371, 6764, 1340>>, e |-> -52],
     sin |-> [s |-> 0, m |-> <<16149, 7458, 3540, 1978>>, e |-> -53]],
    [x |-> [s |-> 0, m |-> <<6095, 11177, 240, 697>>, e |-> -51],
     sin |-> [s |-> 0, m |-> <<13313, 8595, 10655, 15>>, e |-> -46]],
    [x |-> [s |-> 0, m |-> <<9151, 9584, 14933, 361>>, e |-> -50],
     sin |-> [s |-> 0, m |-> <<14615, 5167, 11410, 505>>, e |-> -51]],
    [x |-> [s |-> 0, m |-> <<11867, 5169, 4299, 1501>>, e |-> -52],
     sin |-> [s |-> 0, m |-> <<13283, 10736, 6396, 1018>>, e |-> -52]],
    [x |-> [s |-> 0, m |-> <<9949, 2384, 7200, 777>>, e |-> -51],
     sin |-> [s |-> 0, m |-> <<9757, 13387, 3166, 2045>>, e |-> -53]],
    [x |-> [s |-> 0, m |-> <<1443, 10786, 1014, 201>>, e |-> -49],
     sin |-> [s |-> 0, m |-> <<1>>, e |-> 0]],
    [x |-> [s |-> 0, m |-> <<399, 4592, 12517, 207>>, e |-> -49],
     sin |-> [s |-> 0, m |-> <<9757, 13387, 3166, 2045>>, e |-> -53]],
    [x |-> [s |-> 0, m |-> <<13803, 9975, 14159, 857>>, e |-> -51],
     sin |-> [s |-> 0, m |-> <<13283, 10736, 6396, 1018>>, e |-> -52]],
    [x |-> [s |-> 0, m |-> <<13005, 791, 5509, 442>>, e |-> -50],
     sin |-> [s |-> 0, m |-> <<14615, 5167, 11410, 505>>, e |-> -51]],
    [x |-> [s |-> 0, m |-> <<5449, 9575, 7876, 911>>, e |-> -51],
     sin |-> [s |-> 0, m |-> <<13313, 8595, 10655, 15>>, e |-> -46]],
    [x |-> [s |-> 0, m |-> <<2545, 2366, 9470, 1876>>, e |-> -52],
     sin |-> [s |-> 0, m |-> <<16149, 7458, 3540, 1978>>, e |-> -53]],
    [x |-> [s |-> 0, m |-> <<13973, 3194, 10439, 120>>, e |-> -48],
     sin |-> [s |-> 0, m |-> <<1109, 14413, 9968, 7>>, e |-> -45]],
    [x |-> [s |-> 0, m |-> <<2223, 1565, 13288, 1983>>, e |-> -52],
     sin |-> [s |-> 0, m |-> <<14341, 15358, 15936, 1911>>, e |-> -53]],
    [x |-> [s |-> 0, m |-> <<5127, 8774, 11694, 1018>>, e |-> -51],
     sin |-> [s |-> 0, m |-> <<16277, 15357, 15418, 1870>>, e |-> -53]],
    [x |-> [s |-> 0, m |-> <<475, 8383, 12468, 522>>, e |-> -50],
     sin |-> [s |-> 0, m |-> <<11373, 13556, 12801, 1824>>, e |-> -53]],
    [x |-> [s |-> 0, m |-> <<13157, 8373, 5411, 1072>>, e |-> -51],
     sin |-> [s |-> 0, m |-> <<3243, 8545, 10158, 1773>>, e |-> -53]],
    [x |-> [s |-> 0, m |-> <<8981, 16365, 2269, 1099>>, e |-> -51],
     sin |-> [s |-> 0, m |-> <<12251, 8888, 9786, 1717>>, e |-> -53]],
    [x |-> [s |-> 0, m |-> <<5297, 1993, 7974, 281>>, e |-> -49],
     sin |-> [s |-> 0, m |-> <<16021, 3531, 1775, 207>>, e |-> -50]],
    [x |-> [s |-> 0, m |-> <<4253, 12183, 3092, 288>>, e |-> -49],
     sin |-> [s |-> 0, m |-> <<8999, 5206, 9747, 1591>>, e |-> -53]],
    [x |-> [s |-> 0, m |-> <<6417, 11978, 12806, 589>>, e |-> -50],
     sin |-> [s |-> 0, m |-> <<12209, 10291, 8030, 380>>, e |-> -51]],
    [x |-> [s |-> 0, m |-> <<4329, 15974, 3043, 603>>, e |-> -50],
     sin |-> [s |-> 0, m |-> <<15309, 6652, 2534, 1448>>, e |-> -53]],
    [x |-> [s |-> 0, m |-> <<2241, 3586, 9665, 616>>, e |-> -50],
     sin |-> [s |-> 0, m |-> <<1515, 11716, 3108, 685>>, e |-> -52]],
    [x |-> [s |-> 0, m |-> <<305, 15164, 16188, 1259>>, e |-> -51],
     sin |-> [s |-> 0, m |-> <<15037, 4385, 13896, 1288>>, e |-> -53]],
    [x |-> [s |-> 0, m |-> <<10119, 11987, 3479, 40>>, e |-> -46],
     sin |-> [s |-> 0, m |-> <<6751, 4565, 12848, 1203>>, e |-> -53]],
    [x |-> [s |-> 0, m |-> <<12359, 15573, 13144, 656>>, e |-> -50],
     sin |-> [s |-> 0, m |-> <<15249, 12000, 11638, 557>>, e |-> -52]],
    [x |-> [s |-> 0, m |-> <<4159, 6371, 6764, 1340>>, e |-> -51],
     sin |-> [s |-> 0, m |-> <<16383, 16383, 16383, 2047>>, e |-> -54]],
    [x |-> [s |-> 0, m |-> <<8183, 7181, 10003, 683>>, e |-> -50],
     sin |-> [s |-> 0, m |-> <<12033, 5769, 12657, 929>>, e |-> -53]],
    [x |-> [s |-> 0, m |-> <<6095, 11177, 240, 697>>, e |-> -50],
     sin |-> [s |-> 0, m |-> <<3431, 524, 16329, 832>>, e |-> -53]],
    [x |-> [s |-> 0, m |-> <<10195, 15778, 3430, 355>>, e |-> -49],
     sin |-> [s |-> 0, m |-> <<4931, 16187, 14337, 1467>>, e |-> -54]],
    [x |-> [s |-> 0, m |-> <<9151, 9584, 14933, 361>>, e |-> -49],
     sin |-> [s |-> 0, m |-> <<10577, 7359, 12019, 1265>>, e |-> -54]],
    [x |-> [s |-> 0, m |-> <<16043, 13561, 7440, 1474>>, e |-> -51],
     sin |-> [s |-> 0, m |-> <<1685, 1612, 2012, 1060>>, e |-> -54]],
    [x |-> [s |-> 0, m |-> <<11867, 5169, 4299, 1501>>, e |-> -51],
     sin |-> [s |-> 0, m |-> <<6389, 12553, 3482, 1703>>, e |-> -55]],
    [x |-> [s |-> 0, m |-> <<12037, 14772, 578, 764>>, e |-> -50],
     sin |-> [s |-> 0, m |-> <<4985, 7841, 8374, 1281>>, e |-> -55]],
    [x |-> [s |-> 0, m |-> <<9949, 2384, 7200, 777>>, e |-> -50],
     sin |-> [s |-> 0, m |-> <<5983, 11505, 9737, 1712>>, e |-> -56]],
    [x |-> [s |-> 0, m |-> <<1965, 5691, 11647, 197>>, e |-> -48],
     sin |-> [s |-> 0, m |-> <<9381, 4575, 7738, 857>>, e |-> -56]],
    [x |-> [s |-> 0, m |-> <<1443, 10786, 1014, 201>>, e |-> -48],
     sin |-> [s |-> 0, m |-> <<7175, 3153, 8803, 1129>>, e |-> -105]],
    [x |-> [s |-> 0, m |-> <<7367, 12360, 4975, 1635>>, e |-> -51],
     sin |-> [s |-> 1, m |-> <<2279, 9151, 15476, 1714>>, e |-> -57]],
    [x |-> [s |-> 0, m |-> <<399, 4592, 12517, 207>>, e |-> -48],
     sin |-> [s |-> 1, m |-> <<6029, 11505, 9737, 1712>>, e |-> -56]],
    [x |-> [s |-> 0, m |-> <<15891, 5979, 7538, 844>>, e |-> -50],
     sin |-> [s |-> 1, m |-> <<1335, 6634, 1547, 80>>, e |-> -51]],
    [x |-> [s |-> 0, m |-> <<13803, 9975, 14159, 857>>, e |-> -50],
     sin |-> [s |-> 1, m |-> <<5695, 11330, 13158, 425>>, e |-> -53]],
    [x |-> [s |-> 0, m |-> <<7045, 11559, 8793, 1742>>, e |-> -51],
     sin |-> [s |-> 1, m |-> <<1681, 1612, 2012, 1060>>, e |-> -54]],
    [x |-> [s |-> 0, m |-> <<13005, 791, 5509, 442>>, e |-> -49],
     sin |-> [s |-> 1, m |-> <<10573, 7359, 12019, 1265>>, e |-> -54]],
    [x |-> [s |-> 0, m |-> <<11961, 10981, 627, 449>>, e |-> -49],
     sin |-> [s |-> 1, m |-> <<4927, 16187, 14337, 1467>>, e |-> -54]],
    [x |-> [s |-> 0, m |-> <<5449, 9575, 7876, 911>>, e |-> -50],
     sin |-> [s |-> 1, m |-> <<3429, 524, 16329, 832>>, e |-> -53]],
    [x |-> [s |-> 0, m |-> <<3361, 13571, 14497, 924>>, e |-> -50],
     sin |-> [s |-> 1, m |-> <<7679, 11539, 8930, 1859>>, e |-> -54]],
    [x |-> [s |-> 0, m |-> <<2545, 2366, 9470, 1876>>, e |-> -51],
     sin |-> [s |-> 1, m |-> <<16379, 16383, 16383, 2047>>, e |-> -54]],
    [x |-> [s |-> 0, m |-> <<11213, 12611, 7877, 59>>, e |-> -46],
     sin |-> [s |-> 1, m |-> <<15245, 12000, 11638, 557>>, e |-> -52]],
    [x |-> [s |-> 0, m |-> <<13973, 3194, 10439, 120>>, e |-> -47],
     sin |-> [s |-> 1, m |-> <<6749, 4565, 12848, 1203>>, e |-> -53]],
    [x |-> [s |-> 0, m |-> <<11391, 13170, 8214, 978>>, e |-> -50],
     sin |-> [s |-> 1, m |-> <<3927, 548, 1737, 161>>, e |-> -50]],
    [x |-> [s |-> 0, m |-> <<2223, 1565, 13288, 1983>>, e |-> -51],
     sin |-> [s |-> 1, m |-> <<379, 2929, 4873, 171>>, e |-> -50]],
    [x |-> [s |-> 0, m |-> <<7215, 4778, 5073, 1005>>, e |-> -50],
     sin |-> [s |-> 1, m |-> <<3827, 9855, 633, 362>>, e |-> -51]],
    [x |-> [s |-> 0, m |-> <<5127, 8774, 11694, 1018>>, e |-> -50],
     sin |-> [s |-> 1, m |-> <<16067, 8398, 15738, 1521>>, e |-> -53]],
    [x |-> [s |-> 0, m |-> <<3039, 12770, 1931, 1032>>, e |-> -50],
     sin |-> [s |-> 1, m |-> <<4501, 10795, 13065, 795>>, e |-> -52]],
    [x |-> [s |-> 0, m |-> <<475, 8383, 12468, 522>>, e |-> -49],
     sin |-> [s |-> 1, m |-> <<13479, 11871, 14201, 1656>>, e |-> -53]],
    [x |-> [s |-> 0, m |-> <<15815, 2188, 7587, 529>>, e |-> -49],
     sin |-> [s |-> 1, m |-> <<3063, 10414, 6542, 429>>, e |-> -51]],
    [x |-> [s |-> 0, m |-> <<13157, 8373, 5411, 1072>>, e |-> -50],
     sin |-> [s |-> 1, m |-> <<2453, 13356, 11509, 221>>, e |-> -50]],
    [x |-> [s |-> 0, m |-> <<11069, 12369, 12032, 1085>>, e |-> -50],
     sin |-> [s |-> 1, m |-> <<2843, 7485, 3200, 456>>, e |-> -51]],
    [x |-> [s |-> 0, m |-> <<8981, 16365, 2269, 1099>>, e |-> -50],
     sin |-> [s |-> 1, m |-> <<16331, 7678, 7709, 935>>, e |-> -52]],
    [x |-> [s |-> 0, m |-> <<5819, 13282, 2222, 278>>, e |-> -48],
     sin |-> [s |-> 1, m |-> <<11777, 3839, 16272, 477>>, e |-> -51]],
    [x |-> [s |-> 0, m |-> <<5297, 1993, 7974, 281>>, e |-> -48],
     sin |-> [s |-> 1, m |-> <<5375, 3345, 12513, 1947>>, e |-> -53]],
    [x |-> [s |-> 0, m |-> <<4775, 7088, 13725, 284>>, e |-> -48],
     sin |-> [s |-> 1, m |-> <<16149, 7458, 3540, 1978>>, e |-> -53]],
    [x |-> [s |-> 0, m |-> <<4253, 12183, 3092, 288>>, e |-> -48],
     sin |-> [s |-> 1, m |-> <<13313, 8595, 10655, 15>>, e |-> -46]],
    [x |-> [s |-> 0, m |-> <<14923, 3576, 2608, 1166>>, e |-> -50],
     sin |-> [s |-> 1, m |-> <<9307, 4287, 12873, 2022>>, e |-> -53]],
    [x |-> [s |-> 0, m |-> <<6417, 11978, 12806, 589>>, e |-> -49],
     sin |-> [s |-> 1, m |-> <<13283, 10736, 6396, 1018>>, e |-> -52]],
    [x |-> [s |-> 0, m |-> <<5373, 5784, 7925, 596>>, e |-> -49],
     sin |-> [s |-> 1, m |-> <<9757, 13387, 3166, 2045>>, e |-> -53]],
    [x |-> [s |-> 0, m |-> <<4329, 15974, 3043, 603>>, e |-> -49],
     sin |-> [s |-> 1, m |-> <<1>>, e |-> 0]],
    [x |-> [s |-> 0, m |-> <<3285, 9780, 14546, 609>>, e |-> -49],
     sin |-> [s |-> 1, m |-> <<9757, 13387, 3166, 2045>>, e |-> -53]],
    [x |-> [s |-> 0, m |-> <<2241, 3586, 9665, 616>>, e |-> -49],
     sin |-> [s |-> 1, m |-> <<13283, 10736, 6396, 1018>>, e |-> -52]],
    [x |-> [s |-> 0, m |-> <<2393, 11168, 9567, 1246>>, e |-> -50],
     sin |-> [s |-> 1, m |-> <<14615, 5167, 11410, 505>>, e |-> -51]],
    [x |-> [s |-> 0, m |-> <<305, 15164, 16188, 1259>>, e |-> -50],
     sin |-> [s |-> 1, m |-> <<127, 2536, 4035, 2003>>, e |-> -53]],
    [x |-> [s |-> 0, m |-> <<14601, 2775, 6426, 1273>>, e |-> -50],
     sin |-> [s |-> 1, m |-> <<12229, 1864, 9077, 494>>, e |-> -51]],
    [x |-> [s |-> 0, m |-> <<10119, 11987, 3479, 40>>, e |-> -45],
     sin |-> [s |-> 1, m |-> <<1109, 14413, 9968, 7>>, e |-> -45]],
    [x |-> [s |-> 0, m |-> <<15639, 9537, 8602, 162>>, e |-> -47],
     sin |-> [s |-> 1, m |-> <<14341, 15358, 15936, 1911>>, e |-> -53]],
    [x |-> [s |-> 0, m |-> <<12359, 15573, 13144, 656>>, e |-> -49],
     sin |-> [s |-> 1, m |-> <<16333, 7678, 7709, 935>>, e |-> -52]],
    [x |-> [s |-> 0, m |-> <<11315, 9379, 8263, 663>>, e |-> -49],
     sin |-> [s |-> 1, m |-> <<11377, 13556, 12801, 1824>>, e |-> -53]],
    [x |-> [s |-> 0, m |-> <<4159, 6371, 6764, 1340>>, e |-> -50],
     sin |-> [s |-> 1, m |-> <<9813, 4272, 13271, 886>>, e |-> -52]],
    [x |-> [s |-> 0, m |-> <<9227, 13375, 14884, 676>>, e |-> -49],
     sin |-> [s |-> 1, m |-> <<6127, 4444, 13085, 858>>, e |-> -52]],
    [x |-> [s |-> 0, m |-> <<8183, 7181, 10003, 683>>, e |-> -49],
     sin |-> [s |-> 1, m |-> <<13481, 11871, 14201, 1656>>, e |-> -53]],
    [x |-> [s |-> 0, m |-> <<14277, 1974, 10244, 1380>>, e |-> -50],
     sin |-> [s |-> 1, m |-> <<10443, 13589, 14724, 397>>, e |-> -51]],
    [x |-> [s |-> 0, m |-> <<6095, 11177, 240, 697>>, e |-> -49],
     sin |-> [s |-> 1, m |-> <<3835, 14979, 12789, 23>>, e |-> -47]],
    [x |-> [s |-> 0, m |-> <<5051, 4983, 11743, 703>>, e |-> -49],
     sin |-> [s |-> 1, m |-> <<10105, 13119, 316, 181>>, e |-> -50]],
    [x |-> [s |-> 0, m |-> <<10195, 15778, 3430, 355>>, e |-> -48],
     sin |-> [s |-> 1, m |-> <<3037, 7048, 6217, 1370>>, e |-> -53]],
    [x |-> [s |-> 0, m |-> <<9673, 4489, 9182, 358>>, e |-> -48],
     sin |-> [s |-> 1, m |-> <<15041, 4385, 13896, 1288>>, e |-> -53]],
    [x |-> [s |-> 0, m |-> <<9151, 9584, 14933, 361>>, e |-> -48],
     sin |-> [s |-> 1, m |-> <<10963, 8334, 10129, 37>>, e |-> -48]],
    [x |-> [s |-> 0, m |-> <<1747, 9566, 819, 1461>>, e |-> -50],
     sin |-> [s |-> 1, m |-> <<14115, 7617, 6893, 1115>>, e |-> -53]],
    [x |-> [s |-> 0, m |-> <<16043, 13561, 7440, 1474>>, e |-> -50],
     sin |-> [s |-> 1, m |-> <<1, 0, 0, 256>>, e |-> -51]],
    [x |-> [s |-> 0, m |-> <<13955, 1173, 14062, 1487>>, e |-> -50],
     sin |-> [s |-> 1, m |-> <<14209, 11076, 14520, 464>>, e |-> -52]],
    [x |-> [s |-> 0, m |-> <<11867, 5169, 4299, 1501>>, e |-> -50],
     sin |-> [s |-> 1, m |-> <<8621, 2113, 2041, 104>>, e |-> -50]],
    [x |-> [s |-> 0, m |-> <<13081, 4582, 5460, 757>>, e |-> -49],
     sin |-> [s |-> 1, m |-> <<4933, 16187, 14337, 1467>>, e |-> -54]],
    [x |-> [s |-> 0, m |-> <<12037, 14772, 578, 764>>, e |-> -49],
     sin |-> [s |-> 1, m |-> <<10579, 7359, 12019, 1265>>, e |-> -54]],
    [x |-> [s |-> 0, m |-> <<5603, 773, 7779, 1541>>, e |-> -50],
     sin |-> [s |-> 1, m |-> <<9741, 11788, 4623, 8>>, e |-> -47]],
    [x |-> [s |-> 0, m |-> <<9949, 2384, 7200, 777>>, e |-> -49],
     sin |-> [s |-> 1, m |-> <<6377, 12553, 3482, 1703>>, e |-> -55]],
    [x |-> [s |-> 0, m |-> <<1425, 8765, 4637, 1568>>, e |-> -50],
     sin |-> [s |-> 1, m |-> <<10687, 3920, 12379, 640>>, e |-> -54]],
    [x |-> [s |-> 0, m |-> <<1965, 5691, 11647, 197>>, e |-> -47],
     sin |-> [s |-> 1, m |-> <<2805, 3486, 1217, 214>>, e |-> -53]],
    [x |-> [s |-> 0, m |-> <<13525, 6149, 15127, 24>>, e |-> -44],
     sin |-> [s |-> 1, m |-> <<2395, 9151, 15476, 1714>>, e |-> -57]],
    [x |-> [s |-> 0, m |-> <<1443, 10786, 1014, 201>>, e |-> -47],
     sin |-> [s |-> 1, m |-> <<7175, 3153, 8803, 1129>>, e |-> -104]],
    [x |-> [s |-> 0, m |-> <<4727, 4182, 15561, 810>>, e |-> -49],
     sin |-> [s |-> 0, m |-> <<2069, 9151, 15476, 1714>>, e |-> -57]],
    [x |-> [s |-> 0, m |-> <<7367, 12360, 4975, 1635>>, e |-> -50],
     sin |-> [s |-> 0, m |-> <<5957, 11505, 9737, 1712>>, e |-> -56]],
    [x |-> [s |-> 0, m |-> <<2639, 8178, 5798, 824>>, e |-> -49],
     sin |-> [s |-> 0, m |-> <<5331, 10152, 6189, 320>>, e |-> -53]],
    [x |-> [s |-> 0, m |-> <<399, 4592, 12517, 207>>, e |-> -47],
     sin |-> [s |-> 0, m |-> <<6423, 12553, 3482, 1703>>, e |-> -55]],
    [x |-> [s |-> 0, m |-> <<1103, 7964, 8455, 1675>>, e |-> -50],
     sin |-> [s |-> 0, m |-> <<843, 806, 1006, 530>>, e |-> -53]],
    [x |-> [s |-> 0, m |-> <<15891, 5979, 7538, 844>>, e |-> -49],
     sin |-> [s |-> 0, m |-> <<10571, 7359, 12019, 1265>>, e |-> -54]],
    [x |-> [s |-> 0, m |-> <<14847, 16169, 2656, 851>>, e |-> -49],
     sin |-> [s |-> 0, m |-> <<4925, 16187, 14337, 1467>>, e |-> -54]],
    [x |-> [s |-> 0, m |-> <<13803, 9975, 14159, 857>>, e |-> -49],
     sin |-> [s |-> 0, m |-> <<3435, 524, 16329, 832>>, e |-> -53]],
    [x |-> [s |-> 0, m |-> <<14571, 1890, 4639, 432>>, e |-> -48],
     sin |-> [s |-> 0, m |-> <<12023, 5769, 12657, 929>>, e |-> -53]],
    [x |-> [s |-> 0, m |-> <<7045, 11559, 8793, 1742>>, e |-> -50],
     sin |-> [s |-> 0, m |-> <<1>>, e |-> -1]],
    [x |-> [s |-> 0, m |-> <<13527, 12080, 16141, 438>>, e |-> -48],
     sin |-> [s |-> 0, m |-> <<14105, 7617, 6893, 1115>>, e |-> -53]],
    [x |-> [s |-> 0, m |-> <<13005, 791, 5509, 442>>, e |-> -48],
     sin |-> [s |-> 0, m |-> <<5783, 1141, 15500, 300>>, e |-> -51]],
    [x |-> [s |-> 0, m |-> <<12483, 5886, 11260, 445>>, e |-> -48],
     sin |-> [s |-> 0, m |-> <<15711, 2192, 6948, 644>>, e |-> -52]],
    [x |-> [s |-> 0, m |-> <<11961, 10981, 627, 449>>, e |-> -48],
     sin |-> [s |-> 0, m |-> <<1517, 11716, 3108, 685>>, e |-> -52]],
    [x |-> [s |-> 0, m |-> <<12987, 15154, 9131, 1809>>, e |-> -50],
     sin |-> [s |-> 0, m |-> <<15307, 6652, 2534, 1448>>, e |-> -53]],
    [x |-> [s |-> 0, m |-> <<5449, 9575, 7876, 911>>, e |-> -49],
     sin |-> [s |-> 0, m |-> <<16061, 8398, 15738, 1521>>, e |-> -53]],
    [x |-> [s |-> 0, m |-> <<4405, 3381, 2995, 918>>, e |-> -49],
     sin |-> [s |-> 0, m |-> <<8997, 5206, 9747, 1591>>, e |-> -53]],
    [x |-> [s |-> 0, m |-> <<3361, 13571, 14497, 924>>, e |-> -49],
     sin |-> [s |-> 0, m |-> <<14931, 14127, 7100, 828>>, e |-> -52]],
    [x |-> [s |-> 0, m |-> <<2317, 7377, 9616, 931>>, e |-> -49],
     sin |-> [s |-> 0, m |-> <<3063, 10414, 6542, 429>>, e |-> -51]],
    [x |-> [s |-> 0, m |-> <<2545, 2366, 9470, 1876>>, e |-> -50],
     sin |-> [s |-> 0, m |-> <<2453, 13356, 11509, 221>>, e |-> -50]],
    [x |-> [s |-> 0, m |-> <<229, 11373, 16237, 944>>, e |-> -49],
     sin |-> [s |-> 0, m |-> <<11375, 13556, 12801, 1824>>, e |-> -53]],
    [x |-> [s |-> 0, m |-> <<11213, 12611, 7877, 59>>, e |-> -45],
     sin |-> [s |-> 0, m |-> <<16329, 7678, 7709, 935>>, e |-> -52]],
    [x |-> [s |-> 0, m |-> <<3631, 12034, 9810, 239>>, e |-> -47],
     sin |-> [s |-> 0, m |-> <<14339, 15358, 15936, 1911>>, e |-> -53]],
    [x |-> [s |-> 0, m |-> <<13973, 3194, 10439, 120>>, e |-> -46],
     sin |-> [s |-> 0, m |-> <<5375, 3345, 12513, 1947>>, e |-> -53]],
    [x |-> [s |-> 0, m |-> <<8487, 5961, 9808, 1943>>, e |-> -50],
     sin |-> [s |-> 0, m |-> <<16147, 7458, 3540, 1978>>, e |-> -53]],
    [x |-> [s |-> 0, m |-> <<11391, 13170, 8214, 978>>, e |-> -49],
     sin |-> [s |-> 0, m |-> <<125, 2536, 4035, 2003>>, e |-> -53]],
    [x |-> [s |-> 0, m |-> <<2587, 5840, 4929, 246>>, e |-> -47],
     sin |-> [s |-> 0, m |-> <<14615, 5167, 11410, 505>>, e |-> -51]],
    [x |-> [s |-> 0, m |-> <<2223, 1565, 13288, 1983>>, e |-> -50],
     sin |-> [s |-> 0, m |-> <<13283, 10736, 6396, 1018>>, e |-> -52]],
    [x |-> [s |-> 0, m |-> <<2065, 10935, 10680, 249>>, e |-> -47],
     sin |-> [s |-> 0, m |-> <<13071, 6693, 9775, 1022>>, e |-> -52]],
    [x |-> [s |-> 0, m |-> <<7215, 4778, 5073, 1005>>, e |-> -49],
     sin |-> [s |-> 0, m |-> <<1>>, e |-> 0]],
    [x |-> [s |-> 0, m |-> <<6171, 14968, 191, 1012>>, e |-> -49],
     sin |-> [s |-> 0, m |-> <<9757, 13387, 3166, 2045>>, e |-> -53]],
    [x |-> [s |-> 0, m |-> <<5127, 8774, 11694, 1018>>, e |-> -49],
     sin |-> [s |-> 0, m |-> <<13283, 10736, 6396, 1018>>, e |-> -52]],
    [x |-> [s |-> 0, m |-> <<2041, 9482, 11598, 512>>, e |-> -48],
     sin |-> [s |-> 0, m |-> <<9309, 4287, 12873, 2022>>, e |-> -53]],
    [x |-> [s |-> 0, m |-> <<3039, 12770, 1931, 1032>>, e |-> -49],
     sin |-> [s |-> 0, m |-> <<63, 9460, 10209, 1001>>, e |-> -52]],
    [x |-> [s |-> 0, m |-> <<997, 3288, 6717, 519>>, e |-> -48],
     sin |-> [s |-> 0, m |-> <<8075, 3729, 1770, 989>>, e |-> -52]],
    [x |-> [s |-> 0, m |-> <<475, 8383, 12468, 522>>, e |-> -48],
     sin |-> [s |-> 0, m |-> <<1109, 14413, 9968, 7>>, e |-> -45]],
    [x |-> [s |-> 0, m |-> <<16337, 13477, 1835, 526>>, e |-> -48],
     sin |-> [s |-> 0, m |-> <<14341, 15358, 15936, 1911>>, e |-> -53]],
    [x |-> [s |-> 0, m |-> <<15815, 2188, 7587, 529>>, e |-> -48],
     sin |-> [s |-> 0, m |-> <<8165, 12031, 12046, 467>>, e |-> -51]],
    [x |-> [s |-> 0, m |-> <<14201, 14567, 10292, 1065>>, e |-> -49],
     sin |-> [s |-> 0, m |-> <<5689, 14970, 6400, 912>>, e |-> -52]],
    [x |-> [s |-> 0, m |-> <<13157, 8373, 5411, 1072>>, e |-> -49],
     sin |-> [s |-> 0, m |-> <<3247, 8545, 10158, 1773>>, e |-> -53]],
    [x |-> [s |-> 0, m |-> <<12113, 2179, 530, 1079>>, e |-> -49],
     sin |-> [s |-> 0, m |-> <<12255, 8888, 9786, 1717>>, e |-> -53]],
    [x |-> [s |-> 0, m |-> <<11069, 12369, 12032, 1085>>, e |-> -49],
     sin |-> [s |-> 0, m |-> <<14933, 14127, 7100, 828>>, e |-> -52]],
    [x |-> [s |-> 0, m |-> <<15589, 15107, 9085, 136>>, e |-> -46],
     sin |-> [s |-> 0, m |-> <<4505, 10795, 13065, 795>>, e |-> -52]],
    [x |-> [s |-> 0, m |-> <<8981, 16365, 2269, 1099>>, e |-> -49],
     sin |-> [s |-> 0, m |-> <<3835, 14979, 12789, 23>>, e |-> -47]],
    [x |-> [s |-> 0, m |-> <<11999, 13095, 5237, 4>>, e |-> -41],
     sin |-> [s |-> 0, m |-> <<3829, 9855, 633, 362>>, e |-> -51]],
    [x |-> [s |-> 0, m |-> <<5819, 13282, 2222, 278>>, e |-> -47],
     sin |-> [s |-> 0, m |-> <<1519, 11716, 3108, 685>>, e |-> -52]],
    [x |-> [s |-> 0, m |-> <<15067, 3818, 14837, 139>>, e |-> -46],
     sin |-> [s |-> 0, m |-> <<15713, 2192, 6948, 644>>, e |-> -52]],
    [x |-> [s |-> 0, m |-> <<5297, 1993, 7974, 281>>, e |-> -47],
     sin |-> [s |-> 0, m |-> <<10963, 8334, 10129, 37>>, e |-> -48]],
    [x |-> [s |-> 0, m |-> <<3307, 7279, 12952, 70>>, e |-> -45],
     sin |-> [s |-> 0, m |-> <<14109, 7617, 6893, 1115>>, e |-> -53]],
    [x |-> [s |-> 0, m |-> <<4775, 7088, 13725, 284>>, e |-> -47],
     sin |-> [s |-> 0, m |-> <<16383, 16383, 16383, 511>>, e |-> -52]],
    [x |-> [s |-> 0, m |-> <<14545, 8913, 4204, 143>>, e |-> -46],
     sin |-> [s |-> 0, m |-> <<7103, 5538, 7260, 232>>, e |-> -51]],
    [x |-> [s |-> 0, m |-> <<4253, 12183, 3092, 288>>, e |-> -47],
     sin |-> [s |-> 0, m |-> <<6851, 1048, 16274, 1665>>, e |-> -54]],
    [x |-> [s |-> 0, m |-> <<15967, 9770, 7489, 1159>>, e |-> -49],
     sin |-> [s |-> 0, m |-> <<4935, 16187, 14337, 1467>>, e |-> -54]],
    [x |-> [s |-> 0, m |-> <<14923, 3576, 2608, 1166>>, e |-> -49],
     sin |-> [s |-> 0, m |-> <<13483, 11871, 14201, 632>>, e |-> -53]],
    [x |-> [s |-> 0, m |-> <<13879, 13766, 14110, 1172>>, e |-> -49],
     sin |-> [s |-> 0, m |-> <<1681, 1612, 2012, 1060>>, e |-> -54]],
    [x |-> [s |-> 0, m |-> <<6417, 11978, 12806, 589>>, e |-> -48],
     sin |-> [s |-> 0, m |-> <<5707, 11330, 13158, 425>>, e |-> -53]],
    [x |-> [s |-> 0, m |-> <<11791, 1378, 4348, 1186>>, e |-> -49],
     sin |-> [s |-> 0, m |-> <<10673, 3920, 12379, 640>>, e |-> -54]],
    [x |-> [s |-> 0, m |-> <<5373, 5784, 7925, 596>>, e |-> -48],
     sin |-> [s |-> 0, m |-> <<6065, 11505, 9737, 1712>>, e |-> -56]],
    [x |-> [s |-> 0, m |-> <<4851, 10879, 13676, 599>>, e |-> -48],
     sin |-> [s |-> 0, m |-> <<2413, 9151, 15476, 1714>>, e |-> -57]],
    [x |-> [s |-> 0, m |-> <<4329, 15974, 3043, 603>>, e |-> -48],
     sin |-> [s |-> 0, m |-> <<1285, 6461, 2506, 847>>, e |-> -103]],
    [x |-> [s |-> 0, m |-> <<3807, 4685, 8795, 606>>, e |-> -48],
     sin |-> [s |-> 1, m |-> <<2307, 9151, 15476, 1714>>, e |-> -57]],
    [x |-> [s |-> 0, m |-> <<3285, 9780, 14546, 609>>, e |-> -48],
     sin |-> [s |-> 1, m |-> <<5599, 6972, 2434, 428>>, e |-> -54]],
    [x |-> [s |-> 0, m |-> <<5525, 13366, 7827, 1226>>, e |-> -49],
     sin |-> [s |-> 1, m |-> <<2665, 13268, 3094, 160>>, e |-> -52]],
    [x |-> [s |-> 0, m |-> <<2241, 3586, 9665, 616>>, e |-> -48],
     sin |-> [s |-> 1, m |-> <<11401, 6276, 9933, 851>>, e |-> -54]],
    [x |-> [s |-> 0, m |-> <<1719, 8681, 15416, 619>>, e |-> -48],
     sin |-> [s |-> 1, m |-> <<425, 403, 503, 265>>, e |-> -52]],
    [x |-> [s |-> 0, m |-> <<2393, 11168, 9567, 1246>>, e |-> -49],
     sin |-> [s |-> 1, m |-> <<10569, 7359, 12019, 1265>>, e |-> -54]],
    [x |-> [s |-> 0, m |-> <<675, 2487, 10535, 626>>, e |-> -48],
     sin |-> [s |-> 1, m |-> <<4953, 16187, 14337, 1467>>, e |-> -54]],
    [x |-> [s |-> 0, m |-> <<305, 15164, 16188, 1259>>, e |-> -49],
     sin |-> [s |-> 1, m |-> <<1717, 8454, 8164, 416>>, e |-> -52]],
    [x |-> [s |-> 0, m |-> <<8007, 14530, 11018, 316>>, e |-> -47],
     sin |-> [s |-> 1, m |-> <<14203, 11076, 14520, 464>>, e |-> -52]],
    [x |-> [s |-> 0, m |-> <<14601, 2775, 6426, 1273>>, e |-> -49],
     sin |-> [s |-> 1, m |-> <<3, 0, 0, 512>>, e |-> -52]],
    [x |-> [s |-> 0, m |-> <<7485, 3241, 386, 320>>, e |-> -47],
     sin |-> [s |-> 1, m |-> <<3811, 11192, 7005, 139>>, e |-> -50]],
    [x |-> [s |-> 0, m |-> <<10119, 11987, 3479, 40>>, e |-> -44],
     sin |-> [s |-> 1, m |-> <<6747, 4565, 12848, 1203>>, e |-> -53]],
    [x |-> [s |-> 0, m |-> <<6963, 8336, 6137, 323>>, e |-> -47],
     sin |-> [s |-> 1, m |-> <<15037, 4385, 13896, 1288>>, e |-> -53]],
    [x |-> [s |-> 0, m |-> <<15639, 9537, 8602, 162>>, e |-> -46],
     sin |-> [s |-> 1, m |-> <<3033, 7048, 6217, 1370>>, e |-> -53]],
    [x |-> [s |-> 0, m |-> <<9379, 4573, 14787, 1306>>, e |-> -49],
     sin |-> [s |-> 1, m |-> <<3825, 9855, 633, 362>>, e |-> -51]],
    [x |-> [s |-> 0, m |-> <<12359, 15573, 13144, 656>>, e |-> -48],
     sin |-> [s |-> 1, m |-> <<16049, 8398, 15738, 1521>>, e |-> -53]],
    [x |-> [s |-> 0, m |-> <<7291, 8569, 5024, 1320>>, e |-> -49],
     sin |-> [s |-> 1, m |-> <<10441, 13589, 14724, 397>>, e |-> -51]],
    [x |-> [s |-> 0, m |-> <<11315, 9379, 8263, 663>>, e |-> -48],
     sin |-> [s |-> 1, m |-> <<15655, 7063, 3550, 414>>, e |-> -51]],
    [x |-> [s |-> 0, m |-> <<5203, 12565, 11645, 1333>>, e |-> -49],
     sin |-> [s |-> 1, m |-> <<12251, 8888, 9786, 1717>>, e |-> -53]],
    [x |-> [s |-> 0, m |-> <<4159, 6371, 6764, 1340>>, e |-> -49],
     sin |-> [s |-> 1, m |-> <<3243, 8545, 10158, 1773>>, e |-> -53]],
    [x |-> [s |-> 0, m |-> <<3115, 177, 1883, 1347>>, e |-> -49],
     sin |-> [s |-> 1, m |-> <<11375, 13556, 12801, 1824>>, e |-> -53]],
    [x |-> [s |-> 0, m |-> <<9227, 13375, 14884, 676>>, e |-> -48],
     sin |-> [s |-> 1, m |-> <<16329, 7678, 7709, 935>>, e |-> -52]],
    [x |-> [s |-> 0, m |-> <<8705, 2086, 4252, 680>>, e |-> -48],
     sin |-> [s |-> 1, m |-> <<14339, 15358, 15936, 1911>>, e |-> -53]],
    [x |-> [s |-> 0, m |-> <<8183, 7181, 10003, 683>>, e |-> -48],
     sin |-> [s |-> 1, m |-> <<10879, 9864, 14448, 973>>, e |-> -52]],
    [x |-> [s |-> 0, m |-> <<7661, 12276, 15754, 686>>, e |-> -48],
     sin |-> [s |-> 1, m |-> <<12229, 1864, 9077, 494>>, e |-> -51]],
    [x |-> [s |-> 0, m |-> <<14277, 1974, 10244, 1380>>, e |-> -49],
     sin |-> [s |-> 1, m |-> <<125, 2536, 4035, 2003>>, e |-> -53]],
    [x |-> [s |-> 0, m |-> <<6617, 6082, 10873, 693>>, e |-> -48],
     sin |-> [s |-> 1, m |-> <<14615, 5167, 11410, 505>>, e |-> -51]],
    [x |-> [s |-> 0, m |-> <<6095, 11177, 240, 697>>, e |-> -48],
     sin |-> [s |-> 1, m |-> <<10183, 5089, 12793, 2036>>, e |-> -53]],
    [x |-> [s |-> 0, m |-> <<5573, 16272, 5991, 700>>, e |-> -48],
     sin |-> [s |-> 1, m |-> <<13071, 6693, 9775, 1022>>, e |-> -52]],
    [x |-> [s |-> 0, m |-> <<5051, 4983, 11743, 703>>, e |-> -48],
     sin |-> [s |-> 1, m |-> <<1>>, e |-> 0]],
    [x |-> [s |-> 0, m |-> <<9057, 3772, 2221, 1414>>, e |-> -49],
     sin |-> [s |-> 1, m |-> <<9757, 13387, 3166, 2045>>, e |-> -53]],
    [x |-> [s |-> 0, m |-> <<10195, 15778, 3430, 355>>, e |-> -47],
     sin |-> [s |-> 1, m |-> <<3321, 2684, 9791, 254>>, e |-> -50]],
    [x |-> [s |-> 0, m |-> <<6969, 7768, 8842, 1427>>, e |-> -49],
     sin |-> [s |-> 1, m |-> <<9307, 4287, 12873, 2022>>, e |-> -53]],
    [x |-> [s |-> 0, m |-> <<9673, 4489, 9182, 358>>, e |-> -47],
     sin |-> [s |-> 1, m |-> <<129, 2536, 4035, 2003>>, e |-> -53]],
    [x |-> [s |-> 0, m |-> <<4401, 7903, 966, 90>>, e |-> -45],
     sin |-> [s |-> 1, m |-> <<8075, 3729, 1770, 989>>, e |-> -52]],
    [x |-> [s |-> 0, m |-> <<9151, 9584, 14933, 361>>, e |-> -47],
     sin |-> [s |-> 1, m |-> <<5377, 3345, 12513, 1947>>, e |-> -53]],
    [x |-> [s |-> 0, m |-> <<349, 10162, 13000, 181>>, e |-> -46],
     sin |-> [s |-> 1, m |-> <<7171, 7679, 16160, 955>>, e |-> -52]],
    [x |-> [s |-> 0, m |-> <<1747, 9566, 819, 1461>>, e |-> -49],
     sin |-> [s |-> 1, m |-> <<16283, 15357, 15418, 1870>>, e |-> -53]],
    [x |-> [s |-> 0, m |-> <<703, 3372, 12322, 1467>>, e |-> -49],
     sin |-> [s |-> 1, m |-> <<5689, 14970, 6400, 912>>, e |-> -52]],
    [x |-> [s |-> 0, m |-> <<16043, 13561, 7440, 1474>>, e |-> -49],
     sin |-> [s |-> 1, m |-> <<3247, 8545, 10158, 1773>>, e |-> -53]],
    [x |-> [s |-> 0, m |-> <<15691, 11875, 9471, 740>>, e |-> -48],
     sin |-> [s |-> 1, m |-> <<1533, 5207, 11463, 214>>, e |-> -50]],
    [x |-> [s |-> 0, m |-> <<13955, 1173, 14062, 1487>>, e |-> -49],
     sin |-> [s |-> 1, m |-> <<14933, 14127, 7100, 828>>, e |-> -52]],
    [x |-> [s |-> 0, m |-> <<12911, 11363, 9180, 1494>>, e |-> -49],
     sin |-> [s |-> 1, m |-> <<9001, 5206, 9747, 1591>>, e |-> -53]],
    [x |-> [s |-> 0, m |-> <<11867, 5169, 4299, 1501>>, e |-> -49],
     sin |-> [s |-> 1, m |-> <<16065, 8398, 15738, 1521>>, e |-> -53]],
    [x |-> [s |-> 0, m |-> <<13603, 15871, 16092, 753>>, e |-> -48],
     sin |-> [s |-> 1, m |-> <<15317, 6652, 2534, 1448>>, e |-> -53]],
    [x |-> [s |-> 0, m |-> <<13081, 4582, 5460, 757>>, e |-> -48],
     sin |-> [s |-> 1, m |-> <<3039, 7048, 6217, 1370>>, e |-> -53]],
    [x |-> [s |-> 0, m |-> <<12559, 9677, 11211, 760>>, e |-> -48],
     sin |-> [s |-> 1, m |-> <<15043, 4385, 13896, 1288>>, e |-> -53]],
    [x |-> [s |-> 0, m |-> <<12037, 14772, 578, 764>>, e |-> -48],
     sin |-> [s |-> 1, m |-> <<6753, 4565, 12848, 1203>>, e |-> -53]],
    [x |-> [s |-> 0, m |-> <<6647, 6967, 12660, 1534>>, e |-> -49],
     sin |-> [s |-> 1, m |-> <<14097, 7617, 6893, 1115>>, e |-> -53]],
    [x |-> [s |-> 0, m |-> <<5603, 773, 7779, 1541>>, e |-> -49],
     sin |-> [s |-> 1, m |-> <<16369, 16383, 16383, 1023>>, e |-> -53]],
    [x |-> [s |-> 0, m |-> <<10471, 13673, 1448, 774>>, e |-> -48],
     sin |-> [s |-> 1, m |-> <<12029, 5769, 12657, 929>>, e |-> -53]],
    [x |-> [s |-> 0, m |-> <<9949, 2384, 7200, 777>>, e |-> -48],
     sin |-> [s |-> 1, m |-> <<6853, 1048, 16274, 1665>>, e |-> -54]],
    [x |-> [s |-> 0, m |-> <<9427, 7479, 12951, 780>>, e |-> -48],
     sin |-> [s |-> 1, m |-> <<4907, 16187, 14337, 1467>>, e |-> -54]],
    [x |-> [s |-> 0, m |-> <<1425, 8765, 4637, 1568>>, e |-> -49],
     sin |-> [s |-> 1, m |-> <<15659, 7063, 3550, 158>>, e |-> -51]],
    [x |-> [s |-> 0, m |-> <<12383, 642, 12227, 393>>, e |-> -47],
     sin |-> [s |-> 1, m |-> <<1715, 1612, 2012, 1060>>, e |-> -54]],
    [x |-> [s |-> 0, m |-> <<1965, 5691, 11647, 197>>, e |-> -46],
     sin |-> [s |-> 1, m |-> <<6449, 12553, 3482, 1703>>, e |-> -55]],
    [x |-> [s |-> 0, m |-> <<14677, 6566, 6377, 1588>>, e |-> -49],
     sin |-> [s |-> 1, m |-> <<4967, 7841, 8374, 1281>>, e |-> -55]],
    [x |-> [s |-> 0, m |-> <<13525, 6149, 15127, 24>>, e |-> -43],
     sin |-> [s |-> 1, m |-> <<6073, 11505, 9737, 1712>>, e |-> -56]],
    [x |-> [s |-> 0, m |-> <<11339, 10832, 7345, 400>>, e |-> -47],
     sin |-> [s |-> 1, m |-> <<2431, 9151, 15476, 1714>>, e |-> -57]],
    [x |-> [s |-> 0, m |-> <<1443, 10786, 1014, 201>>, e |-> -46],
     sin |-> [s |-> 1, m |-> <<7175, 3153, 8803, 1129>>, e |-> -103]],
    [x |-> [s |-> 0, m |-> <<10499, 14558, 3235, 1615>>, e |-> -49],
     sin |-> [s |-> 0, m |-> <<9209, 4575, 7738, 857>>, e |-> -56]],
    [x |-> [s |-> 0, m |-> <<4727, 4182, 15561, 810>>, e |-> -48],
     sin |-> [s |-> 0, m |-> <<5533, 6972, 2434, 428>>, e |-> -54]],
    [x |-> [s |-> 0, m |-> <<10295, 4638, 2464, 407>>, e |-> -47],
     sin |-> [s |-> 0, m |-> <<4995, 7841, 8374, 1281>>, e |-> -55]],
    [x |-> [s |-> 0, m |-> <<7367, 12360, 4975, 1635>>, e |-> -49],
     sin |-> [s |-> 0, m |-> <<6351, 12553, 3482, 1703>>, e |-> -55]],
    [x |-> [s |-> 0, m |-> <<3161, 3083, 47, 821>>, e |-> -48],
     sin |-> [s |-> 0, m |-> <<409, 403, 503, 265>>, e |-> -52]],
    [x |-> [s |-> 0, m |-> <<2639, 8178, 5798, 824>>, e |-> -48],
     sin |-> [s |-> 0, m |-> <<15653, 7063, 3550, 158>>, e |-> -51]],
    [x |-> [s |-> 0, m |-> <<2117, 13273, 11549, 827>>, e |-> -48],
     sin |-> [s |-> 0, m |-> <<4891, 16187, 14337, 1467>>, e |-> -54]],
    [x |-> [s |-> 0, m |-> <<399, 4592, 12517, 207>>, e |-> -46],
     sin |-> [s |-> 0, m |-> <<8623, 2113, 2041, 104>>, e |-> -50]],
    [x |-> [s |-> 0, m |-> <<8729, 3539, 3334, 417>>, e |-> -47],
     sin |-> [s |-> 0, m |-> <<7715, 11539, 8930, 1859>>, e |-> -54]],
    [x |-> [s |-> 0, m |-> <<1103, 7964, 8455, 1675>>, e |-> -49],
     sin |-> [s |-> 0, m |-> <<5, 0, 0, 1024>>, e |-> -53]],
    [x |-> [s |-> 0, m |-> <<29, 885, 1787, 841>>, e |-> -48],
     sin |-> [s |-> 0, m |-> <<14103, 7617, 6893, 1115>>, e |-> -53]],
    [x |-> [s |-> 0, m |-> <<15891, 5979, 7538, 844>>, e |-> -48],
     sin |-> [s |-> 0, m |-> <<11565, 2282, 14616, 601>>, e |-> -52]],
    [x |-> [s |-> 0, m |-> <<14355, 5765, 10195, 1695>>, e |-> -49],
     sin |-> [s |-> 0, m |-> <<3929, 548, 1737, 161>>, e |-> -50]],
    [x |-> [s |-> 0, m |-> <<14847, 16169, 2656, 851>>, e |-> -48],
     sin |-> [s |-> 0, m |-> <<379, 2929, 4873, 171>>, e |-> -50]],
    [x |-> [s |-> 0, m |-> <<14325, 4880, 8408, 854>>, e |-> -48],
     sin |-> [s |-> 0, m |-> <<15311, 6652, 2534, 1448>>, e |-> -53]],
    [x |-> [s |-> 0, m |-> <<13803, 9975, 14159, 857>>, e |-> -48],
     sin |-> [s |-> 0, m |-> <<8035, 4199, 16061, 760>>, e |-> -52]],
    [x |-> [s |-> 0, m |-> <<10177, 13757, 7053, 1722>>, e |-> -49],
     sin |-> [s |-> 0, m |-> <<8995, 5206, 9747, 1591>>, e |-> -53]],
    [x |-> [s |-> 0, m |-> <<14571, 1890, 4639, 432>>, e |-> -47],
     sin |-> [s |-> 0, m |-> <<15655, 7063, 3550, 414>>, e |-> -51]],
    [x |-> [s |-> 0, m |-> <<12237, 8876, 15029, 867>>, e |-> -48],
     sin |-> [s |-> 0, m |-> <<12259, 8888, 9786, 1717>>, e |-> -53]],
    [x |-> [s |-> 0, m |-> <<7045, 11559, 8793, 1742>>, e |-> -49],
     sin |-> [s |-> 0, m |-> <<3243, 8545, 10158, 1773>>, e |-> -53]],
    [x |-> [s |-> 0, m |-> <<5495, 8527, 5364, 109>>, e |-> -45],
     sin |-> [s |-> 0, m |-> <<11367, 13556, 12801, 1824>>, e |-> -53]],
    [x |-> [s |-> 0, m |-> <<13527, 12080, 16141, 438>>, e |-> -47],
     sin |-> [s |-> 0, m |-> <<16273, 15357, 15418, 1870>>, e |-> -53]],
    [x |-> [s |-> 0, m |-> <<3913, 9361, 10533, 1762>>, e |-> -49],
     sin |-> [s |-> 0, m |-> <<14081, 1919, 16328, 238>>, e |-> -50]],
    [x |-> [s |-> 0, m |-> <<13005, 791, 5509, 442>>, e |-> -47],
     sin |-> [s |-> 0, m |-> <<10879, 9864, 14448, 973>>, e |-> -52]],
    [x |-> [s |-> 0, m |-> <<6713, 1441, 8216, 55>>, e |-> -44],
     sin |-> [s |-> 0, m |-> <<12229, 1864, 9077, 494>>, e |-> -51]],
    [x |-> [s |-> 0, m |-> <<12483, 5886, 11260, 445>>, e |-> -47],
     sin |-> [s |-> 0, m |-> <<13313, 8595, 10655, 15>>, e |-> -46]],
    [x |-> [s |-> 0, m |-> <<2015, 121, 11164, 223>>, e |-> -46],
     sin |-> [s |-> 0, m |-> <<14615, 5167, 11410, 505>>, e |-> -51]],
    [x |-> [s |-> 0, m |-> <<11961, 10981, 627, 449>>, e |-> -47],
     sin |-> [s |-> 0, m |-> <<10183, 5089, 12793, 2036>>, e |-> -53]],
    [x |-> [s |-> 0, m |-> <<4973, 13622, 11115, 112>>, e |-> -45],
     sin |-> [s |-> 0, m |-> <<13071, 6693, 9775, 1022>>, e |-> -52]],
    [x |-> [s |-> 0, m |-> <<12987, 15154, 9131, 1809>>, e |-> -49],
     sin |-> [s |-> 0, m |-> <<1>>, e |-> 0]],
    [x |-> [s |-> 0, m |-> <<5971, 4480, 2125, 908>>, e |-> -48],
     sin |-> [s |-> 0, m |-> <<13071, 6693, 9775, 1022>>, e |-> -52]],
    [x |-> [s |-> 0, m |-> <<5449, 9575, 7876, 911>>, e |-> -48],
     sin |-> [s |-> 0, m |-> <<3321, 2684, 9791, 254>>, e |-> -50]],
    [x |-> [s |-> 0, m |-> <<4927, 14670, 13627, 914>>, e |-> -48],
     sin |-> [s |-> 0, m |-> <<12847, 10335, 6436, 1011>>, e |-> -52]],
    [x |-> [s |-> 0, m |-> <<4405, 3381, 2995, 918>>, e |-> -48],
     sin |-> [s |-> 0, m |-> <<65, 9460, 10209, 1001>>, e |-> -52]],
    [x |-> [s |-> 0, m |-> <<3883, 8476, 8746, 921>>, e |-> -48],
     sin |-> [s |-> 0, m |-> <<16151, 7458, 3540, 1978>>, e |-> -53]],
    [x |-> [s |-> 0, m |-> <<3361, 13571, 14497, 924>>, e |-> -48],
     sin |-> [s |-> 0, m |-> <<5377, 3345, 12513, 1947>>, e |-> -53]],
    [x |-> [s |-> 0, m |-> <<5677, 4564, 7730, 1856>>, e |-> -49],
     sin |-> [s |-> 0, m |-> <<11779, 3839, 16272, 477>>, e |-> -51]],
    [x |-> [s |-> 0, m |-> <<2317, 7377, 9616, 931>>, e |-> -48],
     sin |-> [s |-> 0, m |-> <<16277, 15357, 15418, 1870>>, e |-> -53]],
    [x |-> [s |-> 0, m |-> <<1795, 12472, 15367, 934>>, e |-> -48],
     sin |-> [s |-> 0, m |-> <<11371, 13556, 12801, 1824>>, e |-> -53]],
    [x |-> [s |-> 0, m |-> <<2545, 2366, 9470, 1876>>, e |-> -49],
     sin |-> [s |-> 0, m |-> <<1227, 14870, 13946, 110>>, e |-> -49]],
    [x |-> [s |-> 0, m |-> <<375, 3139, 13435, 470>>, e |-> -47],
     sin |-> [s |-> 0, m |-> <<12265, 8888, 9786, 1717>>, e |-> -53]],
    [x |-> [s |-> 0, m |-> <<229, 11373, 16237, 944>>, e |-> -48],
     sin |-> [s |-> 0, m |-> <<13473, 11871, 14201, 1656>>, e |-> -53]],
    [x |-> [s |-> 0, m |-> <<15797, 167, 11210, 1896>>, e |-> -49],
     sin |-> [s |-> 0, m |-> <<9001, 5206, 9747, 1591>>, e |-> -53]],
    [x |-> [s |-> 0, m |-> <<11213, 12611, 7877, 59>>, e |-> -44],
     sin |-> [s |-> 0, m |-> <<16077, 8398, 15738, 1521>>, e |-> -53]],
    [x |-> [s |-> 0, m |-> <<15715, 13328, 8553, 477>>, e |-> -47],
     sin |-> [s |-> 0, m |-> <<7659, 3326, 1267, 724>>, e |-> -52]],
    [x |-> [s |-> 0, m |-> <<3631, 12034, 9810, 239>>, e |-> -46],
     sin |-> [s |-> 0, m |-> <<4191, 4828, 13506, 42>>, e |-> -48]],
    [x |-> [s |-> 0, m |-> <<11619, 8159, 8068, 1923>>, e |-> -49],
     sin |-> [s |-> 0, m |-> <<1965, 8466, 9060, 80>>, e |-> -49]],
    [x |-> [s |-> 0, m |-> <<13973, 3194, 10439, 120>>, e |-> -45],
     sin |-> [s |-> 0, m |-> <<11569, 2282, 14616, 601>>, e |-> -52]],
    [x |-> [s |-> 0, m |-> <<14671, 7134, 3672, 484>>, e |-> -47],
     sin |-> [s |-> 0, m |-> <<14111, 7617, 6893, 1115>>, e |-> -53]],
    [x |-> [s |-> 0, m |-> <<8487, 5961, 9808, 1943>>, e |-> -49],
     sin |-> [s |-> 0, m |-> <<7, 0, 0, 512>>, e |-> -52]],
    [x |-> [s |-> 0, m |-> <<11913, 8075, 2463, 975>>, e |-> -48],
     sin |-> [s |-> 0, m |-> <<7733, 11539, 8930, 1859>>, e |-> -54]],
    [x |-> [s |-> 0, m |-> <<11391, 13170, 8214, 978>>, e |-> -48],
     sin |-> [s |-> 0, m |-> <<3457, 524, 16329, 832>>, e |-> -53]],
    [x |-> [s |-> 0, m |-> <<13627, 940, 15175, 490>>, e |-> -47],
     sin |-> [s |-> 0, m |-> <<4909, 16187, 14337, 1467>>, e |-> -54]],
    [x |-> [s |-> 0, m |-> <<2587, 5840, 4929, 246>>, e |-> -46],
     sin |-> [s |-> 0, m |-> <<10555, 7359, 12019, 1265>>, e |-> -54]],
    [x |-> [s |-> 0, m |-> <<13105, 6035, 4542, 494>>, e |-> -47],
     sin |-> [s |-> 0, m |-> <<1655, 1612, 2012, 1060>>, e |-> -54]],
    [x |-> [s |-> 0, m |-> <<2223, 1565, 13288, 1983>>, e |-> -49],
     sin |-> [s |-> 0, m |-> <<11387, 6276, 9933, 851>>, e |-> -54]],
    [x |-> [s |-> 0, m |-> <<8781, 5877, 4203, 995>>, e |-> -48],
     sin |-> [s |-> 0, m |-> <<10709, 3920, 12379, 640>>, e |-> -54]],
    [x |-> [s |-> 0, m |-> <<2065, 10935, 10680, 249>>, e |-> -46],
     sin |-> [s |-> 0, m |-> <<5827, 11505, 9737, 1712>>, e |-> -56]],
    [x |-> [s |-> 0, m |-> <<15475, 15750, 15027, 2003>>, e |-> -49],
     sin |-> [s |-> 0, m |-> <<2193, 9151, 15476, 1714>>, e |-> -57]],
    [x |-> [s |-> 0, m |-> <<7215, 4778, 5073, 1005>>, e |-> -48],
     sin |-> [s |-> 0, m |-> <<13065, 16229, 15099, 1411>>, e |-> -103]],
    [x |-> [s |-> 0, m |-> <<6693, 9873, 10824, 1008>>, e |-> -48],
     sin |-> [s |-> 1, m |-> <<15943, 10525, 9699, 53>>, e |-> -52]],
    [x |-> [s |-> 0, m |-> <<6171, 14968, 191, 1012>>, e |-> -48],
     sin |-> [s |-> 1, m |-> <<11189, 13944, 4868, 856>>, e |-> -55]],
    [x |-> [s |-> 0, m |-> <<11297, 7358, 11886, 2030>>, e |-> -49],
     sin |-> [s |-> 1, m |-> <<4927, 7841, 8374, 1281>>, e |-> -55]],
    [x |-> [s |-> 0, m |-> <<5127, 8774, 11694, 1018>>, e |-> -48],
     sin |-> [s |-> 1, m |-> <<11397, 6276, 9933, 851>>, e |-> -54]],
    [x |-> [s |-> 0, m |-> <<4605, 13869, 1061, 1022>>, e |-> -48],
     sin |-> [s |-> 1, m |-> <<1695, 1612, 2012, 1060>>, e |-> -54]],
    [x |-> [s |-> 0, m |-> <<2041, 9482, 11598, 512>>, e |-> -47],
     sin |-> [s |-> 1, m |-> <<13459, 11871, 14201, 632>>, e |-> -53]],
    [x |-> [s |-> 0, m |-> <<6589, 9151, 9762, 128>>, e |-> -45],
     sin |-> [s |-> 1, m |-> <<4889, 16187, 14337, 1467>>, e |-> -54]],
    [x |-> [s |-> 0, m |-> <<3039, 12770, 1931, 1032>>, e |-> -48],
     sin |-> [s |-> 1, m |-> <<3447, 524, 16329, 832>>, e |-> -53]],
    [x |-> [s |-> 0, m |-> <<4725, 12658, 14208, 258>>, e |-> -46],
     sin |-> [s |-> 1, m |-> <<7101, 5538, 7260, 232>>, e |-> -51]],
    [x |-> [s |-> 0, m |-> <<997, 3288, 6717, 519>>, e |-> -47],
     sin |-> [s |-> 1, m |-> <<16365, 16383, 16383, 2047>>, e |-> -54]],
    [x |-> [s |-> 0, m |-> <<5911, 12726, 4651, 16>>, e |-> -42],
     sin |-> [s |-> 1, m |-> <<15243, 12000, 11638, 557>>, e |-> -52]],
    [x |-> [s |-> 0, m |-> <<475, 8383, 12468, 522>>, e |-> -47],
     sin |-> [s |-> 1, m |-> <<6745, 4565, 12848, 1203>>, e |-> -53]],
    [x |-> [s |-> 0, m |-> <<4203, 1369, 3576, 262>>, e |-> -46],
     sin |-> [s |-> 1, m |-> <<15035, 4385, 13896, 1288>>, e |-> -53]],
    [x |-> [s |-> 0, m |-> <<16337, 13477, 1835, 526>>, e |-> -47],
     sin |-> [s |-> 1, m |-> <<3031, 7048, 6217, 1370>>, e |-> -53]],
    [x |-> [s |-> 0, m |-> <<6067, 14246, 15513, 131>>, e |-> -45],
     sin |-> [s |-> 1, m |-> <<7655, 3326, 1267, 724>>, e |-> -52]],
    [x |-> [s |-> 0, m |-> <<15815, 2188, 7587, 529>>, e |-> -47],
     sin |-> [s |-> 1, m |-> <<16069, 8398, 15738, 1521>>, e |-> -53]],
    [x |-> [s |-> 0, m |-> <<14723, 9472, 4541, 1062>>, e |-> -48],
     sin |-> [s |-> 1, m |-> <<13411, 6794, 15554, 198>>, e |-> -50]],
    [x |-> [s |-> 0, m |-> <<14201, 14567, 10292, 1065>>, e |-> -48],
     sin |-> [s |-> 1, m |-> <<13467, 11871, 14201, 1656>>, e |-> -53]],
    [x |-> [s |-> 0, m |-> <<15191, 12492, 13290, 66>>, e |-> -44],
     sin |-> [s |-> 1, m |-> <<12259, 8888, 9786, 1717>>, e |-> -53]],
    [x |-> [s |-> 0, m |-> <<13157, 8373, 5411, 1072>>, e |-> -48],
     sin |-> [s |-> 1, m |-> <<9809, 4272, 13271, 886>>, e |-> -52]],
    [x |-> [s |-> 0, m |-> <<12635, 13468, 11162, 1075>>, e |-> -48],
     sin |-> [s |-> 1, m |-> <<5683, 14970, 6400, 912>>, e |-> -52]],
    [x |-> [s |-> 0, m |-> <<12113, 2179, 530, 1079>>, e |-> -48],
     sin |-> [s |-> 1, m |-> <<16273, 15357, 15418, 1870>>, e |-> -53]],
    [x |-> [s |-> 0, m |-> <<11591, 7274, 6281, 1082>>, e |-> -48],
     sin |-> [s |-> 1, m |-> <<7169, 7679, 16160, 955>>, e |-> -52]],
    [x |-> [s |-> 0, m |-> <<11069, 12369, 12032, 1085>>, e |-> -48],
     sin |-> [s |-> 1, m |-> <<10879, 9864, 14448, 973>>, e |-> -52]],
    [x |-> [s |-> 0, m |-> <<10547, 1080, 1400, 1089>>, e |-> -48],
     sin |-> [s |-> 1, m |-> <<12229, 1864, 9077, 494>>, e |-> -51]],
    [x |-> [s |-> 0, m |-> <<15589, 15107, 9085, 136>>, e |-> -45],
     sin |-> [s |-> 1, m |-> <<121, 2536, 4035, 2003>>, e |-> -53]],
    [x |-> [s |-> 0, m |-> <<9503, 11270, 12902, 1095>>, e |-> -48],
     sin |-> [s |-> 1, m |-> <<14615, 5167, 11410, 505>>, e |-> -51]],
    [x |-> [s |-> 0, m |-> <<8981, 16365, 2269, 1099>>, e |-> -48],
     sin |-> [s |-> 1, m |-> <<10183, 5089, 12793, 2036>>, e |-> -53]],
    [x |-> [s |-> 0, m |-> <<4229, 10730, 4010, 551>>, e |-> -47],
     sin |-> [s |-> 1, m |-> <<14727, 11538, 4887, 511>>, e |-> -51]],
    [x |-> [s |-> 0, m |-> <<11999, 13095, 5237, 4>>, e |-> -40],
     sin |-> [s |-> 1, m |-> <<1>>, e |-> 0]],
    [x |-> [s |-> 0, m |-> <<3707, 15825, 9761, 554>>, e |-> -47],
     sin |-> [s |-> 1, m |-> <<13071, 6693, 9775, 1022>>, e |-> -52]],
    [x |-> [s |-> 0, m |-> <<5819, 13282, 2222, 278>>, e |-> -46],
     sin |-> [s |-> 1, m |-> <<3321, 2684, 9791, 254>>, e |-> -50]],
    [x |-> [s |-> 0, m |-> <<3185, 4536, 15513, 557>>, e |-> -47],
     sin |-> [s |-> 1, m |-> <<12847, 10335, 6436, 1011>>, e |-> -52]],
    [x |-> [s |-> 0, m |-> <<15067, 3818, 14837, 139>>, e |-> -45],
     sin |-> [s |-> 1, m |-> <<65, 9460, 10209, 1001>>, e |-> -52]],
    [x |-> [s |-> 0, m |-> <<2663, 9631, 4880, 561>>, e |-> -47],
     sin |-> [s |-> 1, m |-> <<16151, 7458, 3540, 1978>>, e |-> -53]],
    [x |-> [s |-> 0, m |-> <<5297, 1993, 7974, 281>>, e |-> -46],
     sin |-> [s |-> 1, m |-> <<5377, 3345, 12513, 1947>>, e |-> -53]],
    [x |-> [s |-> 0, m |-> <<4281, 13068, 4879, 1129>>, e |-> -48],
     sin |-> [s |-> 1, m |-> <<7177, 7679, 16160, 955>>, e |-> -52]],
    [x |-> [s |-> 0, m |-> <<3307, 7279, 12952, 70>>, e |-> -44],
     sin |-> [s |-> 1, m |-> <<16331, 7678, 7709, 935>>, e |-> -52]],
    [x |-> [s |-> 0, m |-> <<1619, 3437, 16383, 567>>, e |-> -47],
     sin |-> [s |-> 1, m |-> <<2843, 7485, 3200, 456>>, e |-> -51]],
    [x |-> [s |-> 0, m |-> <<4775, 7088, 13725, 284>>, e |-> -46],
     sin |-> [s |-> 1, m |-> <<2453, 13356, 11509, 221>>, e |-> -50]],
    [x |-> [s |-> 0, m |-> <<1097, 8532, 5750, 571>>, e |-> -47],
     sin |-> [s |-> 1, m |-> <<1531, 5207, 11463, 214>>, e |-> -50]],
    [x |-> [s |-> 0, m |-> <<14545, 8913, 4204, 143>>, e |-> -45],
     sin |-> [s |-> 1, m |-> <<14929, 14127, 7100, 828>>, e |-> -52]],
    [x |-> [s |-> 0, m |-> <<575, 13627, 11501, 574>>, e |-> -47],
     sin |-> [s |-> 1, m |-> <<11545, 9890, 12080, 49>>, e |-> -48]],
    [x |-> [s |-> 0, m |-> <<4253, 12183, 3092, 288>>, e |-> -46],
     sin |-> [s |-> 1, m |-> <<14295, 5145, 4015, 190>>, e |-> -50]],
    [x |-> [s |-> 0, m |-> <<53, 2338, 869, 578>>, e |-> -47],
     sin |-> [s |-> 1, m |-> <<15599, 9831, 10279, 22>>, e |-> -47]],
    [x |-> [s |-> 0, m |-> <<15967, 9770, 7489, 1159>>, e |-> -48],
     sin |-> [s |-> 1, m |-> <<4191, 4828, 13506, 42>>, e |-> -48]],
    [x |-> [s |-> 0, m |-> <<15445, 14865, 13240, 1162>>, e |-> -48],
     sin |-> [s |-> 1, m |-> <<15045, 4385, 13896, 1288>>, e |-> -53]],
    [x |-> [s |-> 0, m |-> <<14923, 3576, 2608, 1166>>, e |-> -48],
     sin |-> [s |-> 1, m |-> <<6755, 4565, 12848, 1203>>, e |-> -53]],
    [x |-> [s |-> 0, m |-> <<14401, 8671, 8359, 1169>>, e |-> -48],
     sin |-> [s |-> 1, m |-> <<953, 6894, 14039, 34>>, e |-> -48]],
    [x |-> [s |-> 0, m |-> <<13879, 13766, 14110, 1172>>, e |-> -48],
     sin |-> [s |-> 1, m |-> <<1, 0, 0, 1024>>, e |-> -53]],
    [x |-> [s |-> 0, m |-> <<13357, 2477, 3478, 1176>>, e |-> -48],
     sin |-> [s |-> 1, m |-> <<12031, 5769, 12657, 929>>, e |-> -53]],
    [x |-> [s |-> 0, m |-> <<6417, 11978, 12806, 589>>, e |-> -47],
     sin |-> [s |-> 1, m |-> <<1729, 8454, 8164, 416>>, e |-> -52]],
    [x |-> [s |-> 0, m |-> <<12313, 12667, 14980, 1182>>, e |-> -48],
     sin |-> [s |-> 1, m |-> <<4911, 16187, 14337, 1467>>, e |-> -54]],
    [x |-> [s |-> 0, m |-> <<11791, 1378, 4348, 1186>>, e |-> -48],
     sin |-> [s |-> 1, m |-> <<10557, 7359, 12019, 1265>>, e |-> -54]],
    [x |-> [s |-> 0, m |-> <<6913, 13906, 6620, 297>>, e |-> -46],
     sin |-> [s |-> 1, m |-> <<1719, 1612, 2012, 1060>>, e |-> -54]],
    [x |-> [s |-> 0, m |-> <<5373, 5784, 7925, 596>>, e |-> -47],
     sin |-> [s |-> 1, m |-> <<6457, 12553, 3482, 1703>>, e |-> -55]],
    [x |-> [s |-> 0, m |-> <<10225, 279, 5218, 1196>>, e |-> -48],
     sin |-> [s |-> 1, m |-> <<1331, 6634, 1547, 80>>, e |-> -51]],
    [x |-> [s |-> 0, m |-> <<4851, 10879, 13676, 599>>, e |-> -47],
     sin |-> [s |-> 1, m |-> <<6091, 11505, 9737, 1712>>, e |-> -56]],
    [x |-> [s |-> 0, m |-> <<6391, 2617, 12372, 300>>, e |-> -46],
     sin |-> [s |-> 1, m |-> <<9425, 4575, 7738, 857>>, e |-> -56]] }

\* np.sin(x), the build returning the nearest float
NpSin(x) == (CHOOSE e \in SinTable : e.x = x).sin

\* distances, in units in the last place, at which a build of numpy may
\* return its sine from the nearest float
SinUlps == {-1, 0, 1}

\* a + k units in the last place of a
AddUlps(a, k) ==
    IF k = 0 \/ IsZero(a) THEN a
    ELSE FAdd(a, [s |-> IF k < 0 THEN 1 ELSE 0,
                  m |-> BFromInt(Abs(k)),
                  e |-> BitLen(a.m) + a.e - MantBits])

\* lines 468-469: time = frame / 30.0 and t = time / 24.0
MockTime(frame) == FDiv(FromInt(frame), F30_0)
MockT(frame) == FDiv(MockTime(frame), F24_0)

\* line 471: the argument t * np.pi * 6
MockArg(frame) == FMul(FMul(MockT(frame), Pi), FromInt(6))

\* line 471: np.sin(t * np.pi * 6), the sine being off the nearest float by
\* u units in the last place
MockSin(frame, u) == AddUlps(NpSin(MockArg(frame)), u)

MockKp(name, x, y) == [name |-> name, x |-> x, y |-> y, z |-> Zero, visibility |-> F1_0]

\* lines 474-484 with every x moved by half the compensation
MockFrame_half(squat_phase, compensation) ==
    << MockKp("nose", FAdd(F0_5, FMul(compensation, F0_5)), F0_15),
       MockKp("left_shoulder", FAdd(F0_45, FMul(compensation, F0_5)), F0_25),
       MockKp("right_shoulder", FAdd(F0_55, FMul(compensation, F0_5)), F0_25),
       MockKp("left_hip", FAdd(F0_43, FMul(compensation, F0_5)),
              FAdd(F0_5, FMul(squat_phase, F0_1))),
       MockKp("right_hip", FAdd(F0_57, FMul(compensation, F0_5)),
              FAdd(F0_5, FMul(squat_phase, F0_15))),
       MockKp("left_knee", FAdd(F0_42, FMul(compensation, F0_5)),
              FAdd(F0_65, FMul(squat_phase, F0_15))),
       MockKp("right_knee", FAdd(F0_58, FMul(compensation, F0_5)),
              FAdd(F0_65, FMul(squat_phase, F0_1))),
       MockKp("left_ankle", FAdd(F0_42, FMul(compensation, F0_5)), F0_85),
       MockKp("right_ankle", FAdd(F0_58, FMul(compensation, F0_5)), F0_85) >>

\* lines 474-484
MockFrame(squat_phase, compensation) ==
    << MockKp("nose", FAdd(F0_5, compensation), F0_15),
       MockKp("left_shoulder", FAdd(F0_45, compensation), F0_25),
       MockKp("right_shoulder", FAdd(F0_55, compensation), F0_25),
       MockKp("left_hip", FAdd(F0_43, FMul(compensation, FromInt(2))),
              FAdd(F0_5, FMul(squat_phase, F0_1))),
       MockKp("right_hip", FAdd(F0_57, FMul(compensation, F0_5)),
              FAdd(F0_5, FMul(squat_phase, F0_15))),
       MockKp("left_knee", FAdd(F0_42, FMul(compensation, FromInt(2))),
              FAdd(F0_65, FMul(squat_phase, F0_15))),
       MockKp("right_knee", FAdd(F0_58, FMul(compensation, F0_5)),
              FAdd(F0_65, FMul(squat_phase, F0_1))),
       MockKp("left_ankle", FAdd(F0_42, FMul(compensation, F1_5)),
              F0_85),
       MockKp("right_ankle", FAdd(F0_58, FMul(compensation, F0_3)),
              F0_85) >>

\* lines 471-484: squat_phase, compensation and the keypoints
MockFrameKeypoints(frame, u) ==
    MockFrame(MockSin(frame, u), FMul(F0_05, MockSin(frame, u)))

\* lines 466-490: for frame in range(0, 720, 2).  The two signed means of
\* the analysis of this sequence are rounding residue of the sine, so the
\* side and the direction computed for it depend on u
MockKeypoints(u) ==
    [i \in 1..360 |->
        LET frame == 2 * (i - 1) IN
        [frame |-> frame, time |-> MockTime(frame),
         keypoints |-> MockFrameKeypoints(frame, u)]]

\* lines 492-503
_generate_mock_analysis(u) ==
    [keypoints_data |-> MockKeypoints(u),
     fps |-> 30,
     total_frames |-> 720,
     duration |-> F24_0,
     analysis |-> [compensation_detected |-> TRUE,
                   knee_flexion_angle |-> 32,
                   message |-> "Load shifts to healthy leg at 32° knee flexion (mock analysis)",
                   recommendation |-> "Focus on slow, symmetrical knee loading."]]

----------------------------------------------------------------------------
(* _extract_key_moments *)

\* lines 293-297: factor of the duration, label, type
key_times == << [factor |-> F0_2, label |-> "Neutral", type |-> "neutral"],
                [factor |-> F0_5, label |-> "Compensation peak", type |-> "peak"],
                [factor |-> F0_8, label |-> "Recovery phase", type |-> "recovery"] >>

\* line 122 with the frame index taken for the time
FrameTime_frame_index(frame, f) == FromInt(frame)

\* line 125: frame_count / fps if fps > 0 else 0
FrameTime(frame, f) == IF FGT(f, Zero) THEN FDiv(FromInt(frame), f) ELSE Zero

\* line 290 without the test of fps: the duration counted in frames
KeyDuration_in_frames(kd, f) == FromInt(Len(kd) * 2)

\* line 290: len(keypoints_data) * 2 / fps if fps > 0 else 0
KeyDuration(kd, f) == IF FGT(f, Zero) THEN FDiv(FromInt(Len(kd) * 2), f) ELSE Zero

\* lines 294-296: duration * 0.2, duration * 0.5, duration * 0.8
TargetTime(kd, f, m) == FMul(KeyDuration(kd, f), key_times[m].factor)

\* line 306: abs(x["time"] - target_time)
TimeDist(time, target) == FAbs(FSub(time, target))

\* line 306 with a scan that keeps the last record with the smallest key
RECURSIVE MinScan_last(_, _, _, _)
MinScan_last(kd, target, i, best) ==
    IF i > Len(kd) THEN best
    ELSE MinScan_last(kd, target, i + 1,
                      IF FGT(TimeDist(kd[i].time, target), TimeDist(kd[best].time, target))
                      THEN best ELSE i)

\* line 306: min(keypoints_data, key=...) scans in order and keeps the first
\* record with the smallest key; best is the index kept so far
RECURSIVE MinScan(_, _, _, _)
MinScan(kd, target, i, best) ==
    IF i > Len(kd) THEN best
    ELSE MinScan(kd, target, i + 1,
                 IF FGT(TimeDist(kd[best].time, target), TimeDist(kd[i].time, target))
                 THEN i ELSE best)

\* index in keypoints_data of closest_frame for target m
ClosestIndex(kd, f, m) == MinScan(kd, TargetTime(kd, f, m), 2, 1)

\* line 318: f"{video_path.stem}_{moment['type']}.png"
OutputFilename(type) == "video_" \o type \o ".png"

\* lines 324-330
KeyMoment(closest_frame, m) ==
    [time |-> closest_frame.time,
     frame |-> closest_frame.frame,
     label |-> key_times[m].label,
     type |-> key_times[m].type,
     image |-> OutputFilename(key_times[m].type)]

----------------------------------------------------------------------------
(* _draw_skeleton_on_frame *)

(***************************************************************************)
(* An image buffer is [id, shape, base, ops]: id tells one array from      *)
(* another, shape is <<h, w>>, base names the pixels the array was made    *)
(* with and ops is the sequence of cv2 drawing calls applied to it since.  *)
(***************************************************************************)

\* dict.get(k, default); a dict is a function on its keys
Get(d, k, default) == IF k \in DOMAIN d THEN d[k] ELSE default

\* the empty dict
EmptyDict == [k \in {} |-> 0]

\* colours in BGR, lines 360-366 and 386
RED    == <<68, 68, 255>>
YELLOW == <<11, 158, 245>>
GREEN  == <<136, 255, 0>>
GREY   == <<200, 200, 200>>
WHITE  == <<255, 255, 255>>
BLACK  == <<0, 0, 0>>

\* line 339 with no copy made: annotated is the array of the caller
FrameCopy_alias(frame) == frame

\* line 339: frame.copy() is another array with the same shape and pixels
FrameCopy(frame) == [frame EXCEPT !.id = @ + 1]

\* line 345: (int(kp["x"] * w), int(kp["y"] * h))
Pixel(kp, h, w) ==
    <<FTrunc(FMul(kp.x, FromInt(w))), FTrunc(FMul(kp.y, FromInt(h)))>>

\* lines 343-345: the keys of points in insertion order
PointNames(keypoints) ==
    LET idx == [i \in DOMAIN keypoints |-> i]
        first == SelectSeq(idx, LAMBDA i :
                    \A j \in 1..(i - 1) : keypoints[j].name # keypoints[i].name)
    IN  [k \in DOMAIN first |-> keypoints[first[k]].name]

\* lines 343-345: name -> pixel, a later keypoint of a name replacing an
\* earlier one
Points(keypoints, h, w) ==
    LET by == ByName(keypoints)
    IN  [n \in DOMAIN by |-> Pixel(by[n], h, w)]

\* line 352: max(hip_shift, knee_asymmetry), the first of the two unless
\* the second is greater
MaxCompensation(metrics) ==
    LET hip_shift == Get(metrics, "avg_hip_shift", Zero)
        knee_asymmetry == Get(metrics, "avg_knee_asymmetry", Zero)
    IN  IF FGT(knee_asymmetry, hip_shift) THEN knee_asymmetry ELSE hip_shift

\* lines 359-364 with the two tests taken in the other order
ProblemColor_attention_first(max_compensation) ==
    IF FGT(max_compensation, F0_01) THEN YELLOW
    ELSE IF FGT(max_compensation, F0_02) THEN RED
    ELSE GREEN

\* lines 359-364
ProblemColor(max_compensation) ==
    IF FGT(max_compensation, F0_02) THEN RED
    ELSE IF FGT(max_compensation, F0_01) THEN YELLOW
    ELSE GREEN

\* lines 349-382: the colours of the left side, the right side and the centre
Colors(metrics) ==
    IF DOMAIN metrics # {}
    THEN LET hip_shift == Get(metrics, "avg_hip_shift", Zero)
             side == Get(metrics, "compensating_side", "left")
             problem_color == ProblemColor(MaxCompensation(metrics))
             healthy_color == GREEN
         IN  [left_color   |-> IF side = "left"
                               THEN problem_color ELSE healthy_color,
              right_color  |-> IF side = "left"
                               THEN healthy_color ELSE problem_color,
              center_color |-> IF FGT(hip_shift, F0_015)
                               THEN YELLOW ELSE GREEN]
    ELSE [left_color |-> GREEN, right_color |-> GREEN, center_color |-> GREEN]

\* the cv2 calls, as the records kept in the ops of a buffer; the line of a
\* connection and the circles of a point also carry the names they are
\* drawn for
Line(pt1, pt2, color, thickness) ==
    [op |-> "line", pt1 |-> pt1, pt2 |-> pt2, color |-> color, thickness |-> thickness]
LimbLine(start, end, pt1, pt2, color, thickness) ==
    [op |-> "line", limb |-> <<start, end>>, pt1 |-> pt1, pt2 |-> pt2,
     color |-> color, thickness |-> thickness]
Circle(name, center, radius, color, thickness) ==
    [op |-> "circle", name |-> name, center |-> center, radius |-> radius,
     color |-> color, thickness |-> thickness]
\* lines 432-433: the box from (20, 20) to (width of the text + 40, 70)
TextBox(text, color, thickness) ==
    [op |-> "rectangle", pt1 |-> <<20, 20>>, around |-> text,
     color |-> color, thickness |-> thickness]
PutText(text, org, color, thickness) ==
    [op |-> "putText", text |-> text, org |-> org, color |-> color,
     thickness |-> thickness]
ArrowedLine(pt1, pt2, color, thickness) ==
    [op |-> "arrowedLine", pt1 |-> pt1, pt2 |-> pt2, color |-> color,
     thickness |-> thickness]

\* lines 385-387: the vertical line through the centre of the hips
CenterLine(points, h) ==
    IF "left_hip" \in DOMAIN points /\ "right_hip" \in DOMAIN points
    THEN LET hip_center_x == (points["left_hip"][1] + points["right_hip"][1]) \div 2
         IN  << Line(<<hip_center_x, 0>>, <<hip_center_x, h>>, GREY, 2) >>
    ELSE << >>

\* lines 390-403
Connections(c) ==
    << <<"left_shoulder", "left_hip", c.left_color>>,
       <<"left_hip", "left_knee", c.left_color>>,
       <<"left_knee", "left_ankle", c.left_color>>,
       <<"right_shoulder", "right_hip", c.right_color>>,
       <<"right_hip", "right_knee", c.right_color>>,
       <<"right_knee", "right_ankle", c.right_color>>,
       <<"left_hip", "right_hip", c.center_color>> >>

\* lines 405-407
ConnectionLines(points, c) ==
    LET drawn == SelectSeq(Connections(c), LAMBDA t :
                     t[1] \in DOMAIN points /\ t[2] \in DOMAIN points)
    IN  [k \in DOMAIN drawn |->
            LimbLine(drawn[k][1], drawn[k][2],
                     points[drawn[k][1]], points[drawn[k][2]], drawn[k][3], 4)]

\* "left" in name and "right" in name, for the names of POSE_LANDMARKS
LeftNames  == {"left_shoulder", "left_hip", "left_knee", "left_ankle"}
RightNames == {"right_shoulder", "right_hip", "right_knee", "right_ankle"}

\* lines 411-422: the colour that fills the marker of a keypoint
MarkerColor(name, c) ==
    IF name \in LeftNames THEN c.left_color
    ELSE IF name \in RightNames THEN c.right_color
    ELSE c.center_color

\* lines 410-422: a filled circle and a white ring for each point
RECURSIVE Markers(_, _, _)
Markers(names, points, c) ==
    IF names = << >> THEN << >>
    ELSE << Circle(Head(names), points[Head(names)], 8, MarkerColor(Head(names), c), -1),
            Circle(Head(names), points[Head(names)], 10, WHITE, 2) >>
         \o Markers(Tail(names), points, c)

\* str.upper() of the values compensating_side takes
Upper(str) ==
    CASE str = "left" -> "LEFT"
      [] str = "right" -> "RIGHT"
      [] OTHER -> str

\* lines 425-438
IndicatorText(metrics) ==
    IF DOMAIN metrics # {} /\ "compensating_side" \in DOMAIN metrics
          /\ FGT(MaxCompensation(metrics), F0_01)
    THEN LET text == Upper(metrics["compensating_side"]) \o " leg compensation"
         IN  << TextBox(text, BLACK, -1),
                TextBox(text, WHITE, 2),
                PutText(text, <<30, 55>>, WHITE, 2) >>
    ELSE << >>

\* lines 441-458
ShiftArrow(points, metrics, h, w) ==
    IF "left_hip" \in DOMAIN points /\ "right_hip" \in DOMAIN points
          /\ DOMAIN metrics # {}
    THEN LET hip_center_x == (points["left_hip"][1] + points["right_hip"][1]) \div 2
             shift == Abs(hip_center_x - w \div 2)
             direction == Get(metrics, "shift_direction", "")
             arrow_y == h - 50
             arrow_start_x == w \div 2
             arrow_end_x == arrow_start_x
                              + (IF direction = "right" THEN 100 ELSE -100)
         IN  IF FGT(FromInt(shift), FMul(FromInt(w), F0_05))
             THEN << ArrowedLine(<<arrow_start_x, arrow_y>>, <<arrow_end_x, arrow_y>>,
                                 GREY, 3),
                     PutText("Body shift " \o direction,
                             <<w \div 2 - 80, arrow_y - 15>>, GREY, 2) >>
             ELSE << >>
    ELSE << >>

\* lines 337-460: the drawing calls in the order they are made
DrawOps(shape, keypoints, metrics) ==
    LET h == shape[1]
        w == shape[2]
        points == Points(keypoints, h, w)
        c == Colors(metrics)
    IN  CenterLine(points, h)
          \o ConnectionLines(points, c)
          \o Markers(PointNames(keypoints), points, c)
          \o IndicatorText(metrics)
          \o ShiftArrow(points, metrics, h, w)

\* lines 337-460: the array of the caller after the call, and the array
\* returned; the calls draw on annotated, which is the array of the caller
\* only if line 339 made no copy
_draw_skeleton_on_frame(frame, keypoints, metrics) ==
    LET annotated == FrameCopy(frame)
        drawn == [annotated EXCEPT
                     !.ops = @ \o DrawOps(frame.shape, keypoints, metrics)]
    IN  [frame |-> IF annotated.id = frame.id THEN drawn ELSE frame,
         annotated |-> drawn]

----------------------------------------------------------------------------
(* analyze_video *)

\* what an opened source may report for CAP_PROP_FPS and
\* CAP_PROP_FRAME_COUNT, and the <<height, width>> of its frames: a source
\* that reports neither rate nor count, and sources of 30 and of 32 frames
\* per second
SourceMetadata ==
    { [fps |-> Zero, total_frames |-> 0, shape |-> <<480, 640>>],
      [fps |-> F30_0, total_frames |-> MaxFrames, shape |-> <<720, 1280>>],
      [fps |-> F32_0, total_frames |-> MaxFrames, shape |-> <<480, 640>>] }

\* <<height, width>> the frames of a video may have
FrameSizes == { md.shape : md \in SourceMetadata }

\* the pose the detector may report on a sampled frame: hips 1/16 left with
\* the left knee deeper by a float just below 0.08
DetectedPoses == { Pose(75000, 100000, 60000, 160000, 76000, 160000) }

\* what self.detector.detect does on a sampled frame: raises, reports no
\* pose, or reports one pose
DetectOutcomes ==
    {[kind |-> "raise"], [kind |-> "no_pose"]}
        \cup {[kind |-> "pose", pose_landmarks |-> p] : p \in DetectedPoses}

Init ==
    /\ pc = "start"
    /\ path_exists \in BOOLEAN
    /\ detector \in BOOLEAN
    /\ cap = "none"
    /\ cap2 = "none"
    /\ fps = Zero
    /\ total_frames = 0
    /\ frame_count = 0
    /\ detect_log = << >>
    /\ keypoints_data = << >>
    /\ analysis = None
    /\ key_moments = << >>
    /\ reseeks = << >>
    /\ images = {}
    /\ frame_shape = <<0, 0>>
    /\ key_metrics = EmptyDict
    /\ key_frame = None
    /\ annotated_frame = None
    /\ report = None
    /\ error = "none"

\* lines 81-82: the path does not exist
RaiseFileNotFound ==
    /\ pc = "start"
    /\ ~path_exists
    /\ pc' = "raised"
    /\ error' = "FileNotFoundError"
    /\ UNCHANGED <<frame_shape, key_metrics, key_frame, annotated_frame,
                   detect_log, path_exists, detector, cap, cap2, fps, total_frames, frame_count,
                   keypoints_data, analysis, key_moments, reseeks, images, report>>

\* lines 84-86: no detector, the mock report is returned
ReturnMock ==
    /\ pc = "start"
    /\ path_exists
    /\ ~detector
    /\ \E u \in SinUlps : report' = _generate_mock_analysis(u)
    /\ pc' = "done"
    /\ UNCHANGED <<frame_shape, key_metrics, key_frame, annotated_frame,
                   detect_log, path_exists, detector, cap, cap2, fps, total_frames, frame_count,
                   keypoints_data, analysis, key_moments, reseeks, images, error>>

\* lines 88-101: open the video; a source that does not open raises
OpenVideo ==
    /\ pc = "start"
    /\ path_exists
    /\ detector
    /\ \E opened \in BOOLEAN :
          IF ~opened
          THEN /\ cap' = "unopened"
               /\ pc' = "raised"
               /\ error' = "RuntimeError"
               /\ UNCHANGED <<fps, total_frames, frame_shape>>
          ELSE /\ cap' = "open"
               /\ pc' = "loop"
               /\ \E md \in SourceMetadata :
                     /\ fps' = md.fps
                     /\ total_frames' = md.total_frames
                     /\ frame_shape' = md.shape
               /\ UNCHANGED error
    /\ UNCHANGED <<key_metrics, key_frame, annotated_frame,
                   detect_log, path_exists, detector, cap2, frame_count,
                   keypoints_data, analysis, key_moments, reseeks, images, report>>

\* lines 103-135 without the try/except of lines 112 and 129-130: an
\* exception of the detection leaves analyze_video
SampleFrame_abort_on_raise ==
    /\ pc = "loop"
    /\ frame_count < MaxFrames
    /\ IF frame_count % 2 # 0
       THEN /\ frame_count' = frame_count + 1
            /\ UNCHANGED <<keypoints_data, detect_log, pc, error>>
       ELSE \E outcome \in DetectOutcomes :
               /\ detect_log' = Append(detect_log, [frame |-> frame_count,
                                                    kind |-> outcome.kind])
               /\ CASE outcome.kind = "raise" ->
                         /\ pc' = "raised"
                         /\ error' = "Exception"
                         /\ UNCHANGED <<keypoints_data, frame_count>>
                    [] outcome.kind = "no_pose" ->
                         /\ frame_count' = frame_count + 1
                         /\ UNCHANGED <<keypoints_data, pc, error>>
                    [] outcome.kind = "pose" ->
                         /\ keypoints_data' =
                               Append(keypoints_data,
                                      [frame |-> frame_count,
                                       time |-> FrameTime(frame_count, fps),
                                       keypoints |-> _extract_keypoints(outcome.pose_landmarks)])
                         /\ frame_count' = frame_count + 1
                         /\ UNCHANGED <<pc, error>>
    /\ UNCHANGED <<frame_shape, key_metrics, key_frame, annotated_frame,
                   path_exists, detector, cap, cap2, fps, total_frames,
                   analysis, key_moments, reseeks, images, report>>

\* lines 103-135: one iteration of the sampling loop whose cap.read succeeds
SampleFrame ==
    /\ pc = "loop"
    /\ frame_count < MaxFrames
    /\ IF frame_count % 2 # 0
       THEN UNCHANGED <<keypoints_data, detect_log>>
       ELSE \E outcome \in DetectOutcomes :
               /\ detect_log' = Append(detect_log, [frame |-> frame_count,
                                                    kind |-> outcome.kind])
               /\ IF outcome.kind # "pose"
                  THEN UNCHANGED keypoints_data
                  ELSE keypoints_data' =
                          Append(keypoints_data,
                                 [frame |-> frame_count,
                                  time |-> FrameTime(frame_count, fps),
                                  keypoints |-> _extract_keypoints(outcome.pose_landmarks)])
    /\ frame_count' = frame_count + 1
    /\ UNCHANGED <<frame_shape, key_metrics, key_frame, annotated_frame,
                   pc, path_exists, detector, cap, cap2, fps, total_frames,
                   analysis, key_moments, reseeks, images, report, error>>

\* lines 152, 95
ReportDuration == IF FGT(fps, Zero) THEN FDiv(FromInt(total_frames), fps) ELSE Zero

\* lines 148-155
Report(compensation_analysis, moments) ==
    [keypoints_data |-> keypoints_data,
     fps |-> fps,
     total_frames |-> total_frames,
     duration |-> ReportDuration,
     analysis |-> compensation_analysis,
     key_moments |-> moments]

\* lines 104-106 and 137-146 where a read failure before the announced
\* frame count raises instead of ending the loop
EndOfStream_truncation_error ==
    /\ pc = "loop"
    /\ cap' = "released"
    /\ IF frame_count < total_frames
       THEN /\ pc' = "raised"
            /\ error' = "RuntimeError"
            /\ UNCHANGED <<analysis, key_metrics, report, cap2>>
       ELSE /\ analysis' = _analyze_compensation(keypoints_data)
            /\ key_metrics' = Get(analysis', "metrics", EmptyDict)
            /\ UNCHANGED error
            /\ IF keypoints_data = << >>
               THEN /\ report' = Report(analysis', << >>)
                    /\ pc' = "done"
                    /\ UNCHANGED cap2
               ELSE /\ cap2' \in {"open", "unopened"}
                    /\ pc' = "moments"
                    /\ UNCHANGED report
    /\ UNCHANGED <<frame_shape, key_frame, annotated_frame,
                   detect_log, path_exists, detector, fps, total_frames, frame_count,
                   keypoints_data, key_moments, reseeks, images>>

\* lines 104-106 and 138-146 without the cap.release() of line 137
EndOfStream_no_release ==
    /\ pc = "loop"
    /\ analysis' = _analyze_compensation(keypoints_data)
    /\ key_metrics' = Get(analysis', "metrics", EmptyDict)
    /\ IF keypoints_data = << >>
       THEN /\ report' = Report(analysis', << >>)
            /\ pc' = "done"
            /\ UNCHANGED cap2
       ELSE /\ cap2' \in {"open", "unopened"}
            /\ pc' = "moments"
            /\ UNCHANGED report
    /\ UNCHANGED <<frame_shape, key_frame, annotated_frame, cap,
                   detect_log, path_exists, detector, fps, total_frames, frame_count,
                   keypoints_data, key_moments, reseeks, images, error>>

\* lines 104-106, 137-146 and 283-300: cap.read fails, the loop ends, the
\* handle is released and the analysis runs; with no frame records
\* _extract_key_moments returns [] at once and the report is returned,
\* otherwise it makes its own handle (line 300), which opens or does not:
\* isOpened() is not tested
EndOfStream ==
    /\ pc = "loop"
    /\ cap' = "released"
    /\ analysis' = _analyze_compensation(keypoints_data)
    /\ key_metrics' = Get(analysis', "metrics", EmptyDict)
    /\ IF keypoints_data = << >>
       THEN /\ report' = Report(analysis', << >>)
            /\ pc' = "done"
            /\ UNCHANGED cap2
       ELSE /\ cap2' \in {"open", "unopened"}
            /\ pc' = "moments"
            /\ UNCHANGED report
    /\ UNCHANGED <<frame_shape, key_frame, annotated_frame,
                   detect_log, path_exists, detector, fps, total_frames, frame_count,
                   keypoints_data, key_moments, reseeks, images, error>>

\* what one iteration of the loop over key_times meets: cap.read fails;
\* the frame is read, drawn and written; the frame is read and
\* _draw_skeleton_on_frame raises; the frame is drawn and cv2.imwrite
\* raises; or the frame is drawn and cv2.imwrite returns False, having
\* written no file
MomentOutcomes ==
    {"read_failed", "rendered", "draw_raised", "write_raised", "write_failed"}

\* lines 310-313: what an iteration may meet on the handle of line 300; on
\* a handle that did not open cap.read returns False
OutcomesOn(handle) == IF handle = "open" THEN MomentOutcomes ELSE {"read_failed"}

\* line 311: the array cap.read returns for the m-th key moment
ReadFrame(m, frame_number) ==
    [id |-> 2 * m - 1, shape |-> frame_shape, base |-> frame_number, ops |-> << >>]

\* lines 302-330 without the test of ret at line 313
ExtractKeyMoment_ignore_ret ==
    /\ pc = "moments"
    /\ Len(reseeks) < Len(key_times)
    /\ LET m == Len(reseeks) + 1
           idx == ClosestIndex(keypoints_data, fps, m)
           closest_frame == keypoints_data[idx]
           drawn == _draw_skeleton_on_frame(ReadFrame(m, closest_frame.frame),
                                            closest_frame.keypoints, key_metrics)
       IN  \E outcome \in OutcomesOn(cap2) :
              /\ reseeks' = Append(reseeks, [type |-> key_times[m].type,
                                             index |-> idx,
                                             frame |-> closest_frame.frame,
                                             ret |-> outcome # "read_failed"])
              /\ CASE outcome \in {"read_failed", "rendered"} ->
                        /\ key_frame' = drawn.frame
                        /\ annotated_frame' = drawn.annotated
                        /\ images' = images \cup {OutputFilename(key_times[m].type)}
                        /\ key_moments' = Append(key_moments, KeyMoment(closest_frame, m))
                        /\ UNCHANGED <<pc, error>>
                   [] outcome = "draw_raised" ->
                        /\ key_frame' = ReadFrame(m, closest_frame.frame)
                        /\ pc' = "raised"
                        /\ error' = "RenderError"
                        /\ UNCHANGED <<annotated_frame, images, key_moments>>
                   [] outcome = "write_raised" ->
                        /\ key_frame' = drawn.frame
                        /\ annotated_frame' = drawn.annotated
                        /\ pc' = "raised"
                        /\ error' = "RenderError"
                        /\ UNCHANGED <<images, key_moments>>
                   [] outcome = "write_failed" ->
                        /\ key_frame' = drawn.frame
                        /\ annotated_frame' = drawn.annotated
                        /\ key_moments' = Append(key_moments, KeyMoment(closest_frame, m))
                        /\ UNCHANGED <<images, pc, error>>
    /\ UNCHANGED <<frame_shape, key_metrics,
                   detect_log, path_exists, detector, cap, cap2, fps, total_frames,
                   frame_count, keypoints_data, analysis, report>>

\* lines 302-330: one iteration of the loop over key_times.  An exception
\* of _draw_skeleton_on_frame or cv2.imwrite is not caught: it leaves
\* _extract_key_moments and analyze_video before line 332.  The value
\* cv2.imwrite returns is not read: the key moment is appended whether or
\* not the file was written
ExtractKeyMoment ==
    /\ pc = "moments"
    /\ Len(reseeks) < Len(key_times)
    /\ LET m == Len(reseeks) + 1
           idx == ClosestIndex(keypoints_data, fps, m)
           closest_frame == keypoints_data[idx]
           drawn == _draw_skeleton_on_frame(ReadFrame(m, closest_frame.frame),
                                            closest_frame.keypoints, key_metrics)
       IN  \E outcome \in OutcomesOn(cap2) :
              /\ reseeks' = Append(reseeks, [type |-> key_times[m].type,
                                             index |-> idx,
                                             frame |-> closest_frame.frame,
                                             ret |-> outcome # "read_failed"])
              /\ CASE outcome = "read_failed" ->
                        /\ key_frame' = None
                        /\ UNCHANGED <<annotated_frame, images, key_moments, pc, error>>
                   [] outcome = "rendered" ->
                        /\ key_frame' = drawn.frame
                        /\ annotated_frame' = drawn.annotated
                        /\ images' = images \cup {OutputFilename(key_times[m].type)}
                        /\ key_moments' = Append(key_moments, KeyMoment(closest_frame, m))
                        /\ UNCHANGED <<pc, error>>
                   [] outcome = "draw_raised" ->
                        /\ key_frame' = ReadFrame(m, closest_frame.frame)
                        /\ pc' = "raised"
                        /\ error' = "RenderError"
                        /\ UNCHANGED <<annotated_frame, images, key_moments>>
                   [] outcome = "write_raised" ->
                        /\ key_frame' = drawn.frame
                        /\ annotated_frame' = drawn.annotated
                        /\ pc' = "raised"
                        /\ error' = "RenderError"
                        /\ UNCHANGED <<images, key_moments>>
                   [] outcome = "write_failed" ->
                        /\ key_frame' = drawn.frame
                        /\ annotated_frame' = drawn.annotated
                        /\ key_moments' = Append(key_moments, KeyMoment(closest_frame, m))
                        /\ UNCHANGED <<images, pc, error>>
    /\ UNCHANGED <<frame_shape, key_metrics,
                   detect_log, path_exists, detector, cap, cap2, fps, total_frames,
                   frame_count, keypoints_data, analysis, report>>

\* lines 332-335 and 148-155: release the handle and return the report
ReturnReport ==
    /\ pc = "moments"
    /\ Len(reseeks) = Len(key_times)
    /\ cap2' = "released"
    /\ report' = Report(analysis, key_moments)
    /\ pc' = "done"
    /\ UNCHANGED <<frame_shape, key_metrics, key_frame, annotated_frame,
                   detect_log, path_exists, detector, cap, fps, total_frames, frame_count,
                   keypoints_data, analysis, key_moments, reseeks, images, error>>

Next ==
    \/ RaiseFileNotFound
    \/ ReturnMock
    \/ OpenVideo
    \/ SampleFrame
    \/ EndOfStream
    \/ ExtractKeyMoment
    \/ ReturnReport

Spec == Init /\ [][Next]_vars

----------------------------------------------------------------------------
(* _analyze_compensation called directly on a frame-record sequence *)

\* a complete pose well beyond both thresholds
BigKeypoints == _extract_keypoints(Pose(100000, 125000, 100000, 175000, 125000, 175000))

\* keypoint lists that are not the nine keypoints of one detection
PartialKeypoints ==
    { Without(BigKeypoints, {"left_ankle"}),
      Without(BigKeypoints, {"right_hip"}),
      Without(BigKeypoints, {"nose"}),
      << >> }

AnalysisKeypoints == CompleteKeypoints \cup PartialKeypoints

\* the frame-record sequence with the keypoint lists ks, numbered as a
\* sampling at 32 fps with a detection on every sampled frame numbers them
AnalysisInput(ks) ==
    [i \in DOMAIN ks |-> [frame |-> 2 * (i - 1),
                          time |-> FrameTime(2 * (i - 1), F32_0),
                          keypoints |-> ks[i]]]

\* the argument is a sequence of length 0..MaxRecs over AnalysisKeypoints,
\* or a mock sequence
InitAnalyze ==
    /\ pc = "call"
    /\ \/ \E n \in 0..MaxRecs : \E ks \in [1..n -> AnalysisKeypoints] :
             keypoints_data = AnalysisInput(ks)
       \/ \E u \in SinUlps : keypoints_data = MockKeypoints(u)
    /\ analysis = None
    /\ path_exists = TRUE
    /\ detector = TRUE
    /\ cap = "none"
    /\ cap2 = "none"
    /\ fps = Zero
    /\ total_frames = 0
    /\ frame_count = 0
    /\ detect_log = << >>
    /\ key_moments = << >>
    /\ reseeks = << >>
    /\ images = {}
    /\ frame_shape = <<0, 0>>
    /\ key_metrics = EmptyDict
    /\ key_frame = None
    /\ annotated_frame = None
    /\ report = None
    /\ error = "none"

\* lines 174-279
CallAnalyzeCompensation ==
    /\ pc = "call"
    /\ analysis' = _analyze_compensation(keypoints_data)
    /\ pc' = "returned"
    /\ UNCHANGED <<frame_shape, key_metrics, key_frame, annotated_frame,
                   detect_log, path_exists, detector, cap, cap2, fps, total_frames, frame_count,
                   keypoints_data, key_moments, reseeks, images, report, error>>

NextAnalyze == CallAnalyzeCompensation

SpecAnalyze == InitAnalyze /\ [][NextAnalyze]_vars

----------------------------------------------------------------------------
(* _draw_skeleton_on_frame called directly on a frame *)

\* keypoint lists handed to the drawing: the nine keypoints of the poses
\* the detector may report, and partial lists
DrawKeypoints == {_extract_keypoints(p) : p \in DetectedPoses} \cup PartialKeypoints

\* values of avg_hip_shift and avg_knee_asymmetry at and around the limits
\* 0.01, 0.015 and 0.02 of the colours
DrawLevels == { Zero, F0_01, F0_015, Dec(1, 64), F0_02, Dec(3, 100) }

\* lines 267-274: the metrics of an analysis; and dicts that lack keys
DrawMetrics ==
    { [avg_hip_shift |-> hs, max_hip_shift |-> hs,
       avg_knee_asymmetry |-> ka, max_knee_asymmetry |-> ka,
       compensating_side |-> side, shift_direction |-> direction] :
          hs \in DrawLevels, ka \in DrawLevels,
          side \in {"left", "right"}, direction \in {"left", "right"} }
      \cup { EmptyDict,
             [avg_hip_shift |-> Dec(3, 100)],
             [avg_knee_asymmetry |-> F0_015, shift_direction |-> "right"] }

InitDraw ==
    /\ pc = "draw_call"
    /\ \E ks \in DrawKeypoints : keypoints_data = AnalysisInput(<<ks>>)
    /\ key_metrics \in DrawMetrics
    /\ \E shape \in FrameSizes :
          key_frame = [id |-> 1, shape |-> shape, base |-> 0, ops |-> << >>]
    /\ frame_shape = key_frame.shape
    /\ annotated_frame = None
    /\ analysis = None
    /\ path_exists = TRUE
    /\ detector = TRUE
    /\ cap = "none"
    /\ cap2 = "none"
    /\ fps = Zero
    /\ total_frames = 0
    /\ frame_count = 0
    /\ detect_log = << >>
    /\ key_moments = << >>
    /\ reseeks = << >>
    /\ images = {}
    /\ report = None
    /\ error = "none"

\* lines 337-460
CallDrawSkeleton ==
    /\ pc = "draw_call"
    /\ LET drawn == _draw_skeleton_on_frame(key_frame, keypoints_data[1].keypoints,
                                            key_metrics)
       IN  /\ key_frame' = drawn.frame
           /\ annotated_frame' = drawn.annotated
    /\ pc' = "drawn"
    /\ UNCHANGED <<frame_shape, key_metrics,
                   detect_log, path_exists, detector, cap, cap2, fps, total_frames,
                   frame_count, keypoints_data, analysis, key_moments, reseeks,
                   images, report, error>>

NextDraw == CallDrawSkeleton

SpecDraw == InitDraw /\ [][NextDraw]_vars

----------------------------------------------------------------------------
(* Properties of _analyze_compensation, stated on the raw frame records *)

\* the first keypoint of the record that carries the name
KpOf(frame_data, name) ==
    LET kps == frame_data.keypoints
    IN  kps[CHOOSE i \in DOMAIN kps : kps[i].name = name]

HasName(frame_data, name) ==
    \E i \in DOMAIN frame_data.keypoints : frame_data.keypoints[i].name = name

\* indices of the records that carry all six hip, knee and ankle keypoints
QualifyingIdx(kd) ==
    { i \in DOMAIN kd : \A n \in RequiredNames : HasName(kd[i], n) }

\* the float (left_hip.x + right_hip.x) / 2 - 0.5 of a record
RawHipOffset(frame_data) ==
    FSub(FDiv(FAdd(KpOf(frame_data, "left_hip").x, KpOf(frame_data, "right_hip").x),
              FromInt(2)),
         F0_5)

\* the float |left_knee.y - left_ankle.y| - |right_knee.y - right_ankle.y|
\* of a record
RawKneeDiff(frame_data) ==
    FSub(FAbs(FSub(KpOf(frame_data, "left_knee").y, KpOf(frame_data, "left_ankle").y)),
         FAbs(FSub(KpOf(frame_data, "right_knee").y, KpOf(frame_data, "right_ankle").y)))

\* hip_shift > 0.05 and knee_asymmetry > 0.08 in a record
HipOver(frame_data) == FGT(FAbs(RawHipOffset(frame_data)), F0_05)
KneeOver(frame_data) == FGT(FAbs(RawKneeDiff(frame_data)), F0_08)

\* np.mean of F over the qualifying records of kd, in their order
MeanOver(F(_), kd) ==
    LET q == SelectSeq(kd, LAMBDA r : \A n \in RequiredNames : HasName(r, n))
    IN  Mean([i \in DOMAIN q |-> F(q[i])])

Returned == pc = "returned" /\ QualifyingIdx(keypoints_data) # {}

\* C1: with at least one qualifying frame, compensation_detected is true
\* iff the largest hip shift is > 0.05 or the largest knee asymmetry is
\* > 0.08: iff some qualifying frame has hip_shift > 0.05 or some qualifying
\* frame has knee_asymmetry > 0.08 (strictly), and iff the reported maxima
\* exceed the thresholds
C1_DetectedIffOverThreshold ==
    Returned =>
        /\ analysis.compensation_detected
             <=> \E i \in QualifyingIdx(keypoints_data) :
                    HipOver(keypoints_data[i]) \/ KneeOver(keypoints_data[i])
        /\ analysis.compensation_detected
             <=> \/ FGT(analysis.metrics.max_hip_shift, F0_05)
                 \/ FGT(analysis.metrics.max_knee_asymmetry, F0_08)

\* C1 witness: the largest knee asymmetry is exactly 0.08, no hip shift is
\* over 0.05, and nothing is detected
C1_Witness ==
    /\ Returned
    /\ \E i \in QualifyingIdx(keypoints_data) :
          FAbs(RawKneeDiff(keypoints_data[i])) = F0_08
    /\ \A i \in QualifyingIdx(keypoints_data) :
          ~HipOver(keypoints_data[i]) /\ ~KneeOver(keypoints_data[i])
    /\ analysis.metrics.max_knee_asymmetry = F0_08
    /\ analysis.compensation_detected = FALSE

\* C2: with at least one qualifying frame, compensating_side is "left" iff
\* the mean of the knee depth differences over the qualifying frames, as
\* np.mean computes it, is > 0; otherwise it is "right"
C2_SideLeftIffMeanPositive ==
    Returned =>
        LET mean == MeanOver(RawKneeDiff, keypoints_data)
        IN  /\ analysis.compensating_side = "left" <=> FGT(mean, Zero)
            /\ analysis.compensating_side = "right" <=> ~FGT(mean, Zero)
            /\ analysis.metrics.compensating_side = analysis.compensating_side

\* C2 witness: two qualifying frames with opposite non-zero differences, a
\* mean of exactly 0, resolved to "right"
C2_Witness ==
    /\ Returned
    /\ \E i \in QualifyingIdx(keypoints_data) :
          FGT(RawKneeDiff(keypoints_data[i]), Zero)
    /\ MeanOver(RawKneeDiff, keypoints_data) = Zero
    /\ analysis.compensating_side = "right"

\* C3: with at least one qualifying frame, shift_direction is "right" iff
\* the mean of (left_hip.x + right_hip.x) / 2 - 0.5 over the qualifying
\* frames, as np.mean computes it, is > 0, and "left" otherwise
C3_DirectionRightIffMeanPositive ==
    Returned =>
        LET mean == MeanOver(RawHipOffset, keypoints_data)
        IN  /\ analysis.shift_direction = "right" <=> FGT(mean, Zero)
            /\ analysis.shift_direction = "left" <=> ~FGT(mean, Zero)
            /\ analysis.metrics.shift_direction = analysis.shift_direction

\* C3 witness: qualifying frames right and left of centre whose mean offset
\* is exactly 0, resolved to "left"
C3_Witness ==
    /\ Returned
    /\ \E i \in QualifyingIdx(keypoints_data) :
          FGT(RawHipOffset(keypoints_data[i]), Zero)
    /\ MeanOver(RawHipOffset, keypoints_data) = Zero
    /\ analysis.shift_direction = "left"

\* C4: a run with a detector that ends with no frame record returns
\* analysis = {compensation_detected: false, message: "No pose data
\* available for analysis"} and nothing else, and key_moments = []
C4_NoPoseReport ==
    (pc = "done" /\ detector /\ keypoints_data = << >>) =>
        /\ report.analysis = [compensation_detected |-> FALSE,
                              message |-> "No pose data available for analysis"]
        /\ DOMAIN report.analysis = {"compensation_detected", "message"}
        /\ report.key_moments = << >>

\* C4 witness: two frames were sampled, neither gave a pose, and the run
\* returned
C4_Witness ==
    /\ pc = "done"
    /\ detector
    /\ frame_count >= 3
    /\ keypoints_data = << >>
    /\ report.key_moments = << >>

\* C5: a non-empty sequence in which every record lacks one of the six
\* hip, knee and ankle keypoints gives exactly {compensation_detected:
\* false, message: "Insufficient data for analysis"}
C5_InsufficientData ==
    (pc = "returned" /\ keypoints_data # << >> /\ QualifyingIdx(keypoints_data) = {}) =>
        /\ analysis = [compensation_detected |-> FALSE,
                       message |-> "Insufficient data for analysis"]
        /\ DOMAIN analysis = {"compensation_detected", "message"}

\* C5 witness: two records, one with keypoints but no left ankle and one
\* with no keypoints at all
C5_Witness ==
    /\ pc = "returned"
    /\ Len(keypoints_data) = 2
    /\ QualifyingIdx(keypoints_data) = {}
    /\ \E i \in DOMAIN keypoints_data :
          HasName(keypoints_data[i], "left_hip") /\ ~HasName(keypoints_data[i], "left_ankle")
    /\ \E i \in DOMAIN keypoints_data : keypoints_data[i].keypoints = << >>
    /\ analysis.message = "Insufficient data for analysis"

\* C6: with qualifying frames none of which has hip_shift > 0.05 or
\* knee_asymmetry > 0.08, compensation_detected is false and the message is
\* "No significant compensation detected"
C6_WithinThresholds ==
    (Returned /\ \A i \in QualifyingIdx(keypoints_data) :
                    ~HipOver(keypoints_data[i]) /\ ~KneeOver(keypoints_data[i])) =>
        /\ analysis.compensation_detected = FALSE
        /\ analysis.message = "No significant compensation detected"

\* C6 witness: qualifying frames with a non-zero hip shift within 0.05 and a
\* non-zero knee asymmetry within 0.08, and also a frame with both zero
C6_Witness ==
    /\ Returned
    /\ \A i \in QualifyingIdx(keypoints_data) :
          ~HipOver(keypoints_data[i]) /\ ~KneeOver(keypoints_data[i])
    /\ \E i \in QualifyingIdx(keypoints_data) :
          /\ RawHipOffset(keypoints_data[i]) # Zero
          /\ RawKneeDiff(keypoints_data[i]) # Zero
    /\ \E i \in QualifyingIdx(keypoints_data) :
          /\ RawHipOffset(keypoints_data[i]) = Zero
          /\ RawKneeDiff(keypoints_data[i]) = Zero
    /\ analysis.message = "No significant compensation detected"

\* the sequence is one that _generate_mock_analysis builds
IsMock(kd) == Len(kd) = 360 /\ \E u \in SinUlps : kd = MockKeypoints(u)

\* C9: the mock keypoint sequence, passed through _analyze_compensation,
\* gives compensation_detected = true
C9_MockDetected ==
    (pc = "returned" /\ IsMock(keypoints_data)) =>
        analysis.compensation_detected = TRUE

\* C9 witness: the analysis has returned on the 360 mock records, the
\* detection coming from the hip shift alone
C9_Witness ==
    /\ pc = "returned"
    /\ IsMock(keypoints_data)
    /\ \E i \in DOMAIN keypoints_data : HipOver(keypoints_data[i])
    /\ \A i \in DOMAIN keypoints_data : ~KneeOver(keypoints_data[i])
    /\ analysis.compensation_detected = TRUE

----------------------------------------------------------------------------
(* Properties of _extract_key_moments and of the report *)

\* the float |time - target| for record i and target m: the target is the
\* duration len * 2 / fps (0 when fps is not positive) times the factor
KeyDist(kd, i, m) ==
    LET duration == IF FGT(fps, Zero) THEN FDiv(FromInt(Len(kd) * 2), fps) ELSE Zero
    IN  FAbs(FSub(kd[i].time, FMul(duration, key_times[m].factor)))

\* C7: never more than 3 moments, and the record selected for each target
\* is at the least distance from the target, as the floats give it, no
\* earlier record being at that same distance
C7_NearestFirst ==
    [][/\ Len(key_moments') <= 3
       /\ reseeks' # reseeks =>
             LET m == Len(reseeks')
                 sel == reseeks'[m].index
                 dist == [i \in DOMAIN keypoints_data |-> KeyDist(keypoints_data, i, m)]
             IN  /\ Len(reseeks') = Len(reseeks) + 1
                 /\ SubSeq(reseeks', 1, Len(reseeks)) = reseeks
                 /\ keypoints_data' = keypoints_data /\ fps' = fps
                 /\ sel \in DOMAIN keypoints_data
                 /\ reseeks'[m].frame = keypoints_data[sel].frame
                 /\ \A i \in DOMAIN keypoints_data :
                       /\ ~FGT(dist[sel], dist[i])
                       /\ i < sel => FGT(dist[i], dist[sel])]_vars

\* C7 witness: at a positive fps a target lies at the same least distance
\* from two records with different times, the earlier one was selected,
\* and its moment was returned
C7_Witness ==
    /\ pc = "done"
    /\ FGT(fps, Zero)
    /\ \E m \in DOMAIN reseeks :
          /\ reseeks[m].ret
          /\ \E i \in DOMAIN keypoints_data :
                /\ i > reseeks[m].index
                /\ KeyDist(keypoints_data, i, m)
                      = KeyDist(keypoints_data, reseeks[m].index, m)
                /\ keypoints_data[i].time # keypoints_data[reseeks[m].index].time
          /\ \E k \in DOMAIN key_moments :
                /\ key_moments[k].type = reseeks[m].type
                /\ key_moments[k].frame = keypoints_data[reseeks[m].index].frame

KeyTypes == [m \in DOMAIN key_times |-> key_times[m].type]

\* C8: a failed read drops that moment only and raises nothing: the reads
\* are attempted once per target in the order neutral, peak, recovery, the
\* moments are those of the targets whose read succeeded, in that order,
\* the run returns them after the third target, and the only exception of
\* the loop comes from rendering a frame that was read
C8_FailedReadDropsOneMoment ==
    /\ [m \in DOMAIN reseeks |-> reseeks[m].type] = SubSeq(KeyTypes, 1, Len(reseeks))
    /\ [k \in DOMAIN key_moments |-> key_moments[k].type]
          = LET done == IF error = "RenderError"
                        THEN SubSeq(reseeks, 1, Len(reseeks) - 1)
                        ELSE reseeks
                ok == SelectSeq(done, LAMBDA r : r.ret)
            IN  [k \in DOMAIN ok |-> ok[k].type]
    /\ (pc = "raised" /\ reseeks # << >>) =>
          reseeks[Len(reseeks)].ret /\ error = "RenderError"
    /\ (pc = "done" /\ keypoints_data # << >>) =>
          /\ Len(reseeks) = 3
          /\ error = "none"
          /\ report.key_moments = key_moments

\* C8 witness: the read for the peak target failed, the other two
\* succeeded, and the run returned the neutral and recovery moments
C8_Witness ==
    /\ pc = "done"
    /\ Len(reseeks) = 3
    /\ reseeks[1].ret /\ ~reseeks[2].ret /\ reseeks[3].ret
    /\ [k \in DOMAIN report.key_moments |-> report.key_moments[k].type]
          = <<"neutral", "recovery">>

\* keys of a report of the normal mode, and of its analysis when
\* compensation is detected
NormalReportKeys == DOMAIN Report(None, << >>)
DetectedAnalysisKeys ==
    DOMAIN _analyze_compensation(<< [frame |-> 0, time |-> Zero,
                                     keypoints |-> BigKeypoints] >>)

\* C10: the report of the degraded mode has the top-level keys of a
\* normal-mode report (key_moments among them) and its analysis the keys of
\* a normal-mode analysis with compensation detected (compensating_side,
\* shift_direction and metrics among them)
C10_SameReportShape ==
    (pc = "done" /\ ~detector) =>
        /\ DOMAIN report = NormalReportKeys
        /\ DOMAIN report.analysis = DetectedAnalysisKeys

----------------------------------------------------------------------------
(* Properties of the sampling loop of analyze_video *)

\* the last detection logged
LastDetect(log) == log[Len(log)]

\* C11: an exception raised by the pose detection on a sampled frame is
\* caught: the step that meets it adds no frame record, raises nothing,
\* leaves the run in the sampling loop and moves on to the next frame
C11_DetectionExceptionCaught ==
    [][(detect_log' # detect_log /\ LastDetect(detect_log').kind = "raise") =>
          /\ pc' = "loop"
          /\ error' = "none"
          /\ keypoints_data' = keypoints_data
          /\ frame_count' = LastDetect(detect_log').frame + 1]_vars

\* C11 witness: the detection raised on a sampled frame, a later frame
\* was sampled and recorded, and the returned report holds the record of
\* the later frame and none of the frame that raised
C11_Witness ==
    /\ pc = "done"
    /\ \E i, j \in DOMAIN detect_log :
          /\ i < j
          /\ detect_log[i].kind = "raise"
          /\ detect_log[j].kind = "pose"
          /\ \E k \in DOMAIN report.keypoints_data :
                report.keypoints_data[k].frame = detect_log[j].frame
          /\ \A k \in DOMAIN report.keypoints_data :
                report.keypoints_data[k].frame # detect_log[i].frame

\* C14: the frames handed to the detection are the frames 0, 2, 4, ... read
\* so far, in order; the frame records are those of the frames where a
\* pose was found, with strictly increasing frame indices; the time of
\* a record is its frame index over fps, or 0 when fps is not positive
C14_StrideSampling ==
    /\ Len(detect_log) = (frame_count + 1) \div 2
    /\ \A i \in DOMAIN detect_log : detect_log[i].frame = 2 * (i - 1)
    /\ [k \in DOMAIN keypoints_data |-> keypoints_data[k].frame]
          = LET found == SelectSeq(detect_log, LAMBDA d : d.kind = "pose")
            IN  [k \in DOMAIN found |-> found[k].frame]
    /\ \A k \in DOMAIN keypoints_data :
          /\ k > 1 => keypoints_data[k - 1].frame < keypoints_data[k].frame
          /\ keypoints_data[k].time
                = IF FGT(fps, Zero)
                  THEN FDiv(FromInt(keypoints_data[k].frame), fps)
                  ELSE Zero

\* C14 witness: at a positive fps, frames 0 to 4 were read, the odd ones
\* skipped, and frames 0 and 4 were recorded with a pose-less frame 2
\* between them
C14_Witness ==
    /\ pc = "loop"
    /\ FGT(fps, Zero)
    /\ frame_count = 5
    /\ Len(keypoints_data) = 2
    /\ keypoints_data[1].frame = 0
    /\ keypoints_data[2].frame = 4
    /\ keypoints_data[2].time = FDiv(FromInt(4), fps)
    /\ keypoints_data[2].time # Zero

\* C15: once the reads have ended, wherever in the stream, the handle of
\* the sampling loop is released, the run has raised nothing for it, and
\* the report returned holds the frame records collected so far and their
\* analysis
C15_ReadFailureEndsSampling ==
    cap = "released" =>
        /\ pc \in {"moments", "done", "raised"}
        /\ pc = "raised" => (error = "RenderError" /\ reseeks # << >>)
        /\ pc # "raised" => error = "none"
        /\ \A k \in DOMAIN keypoints_data : keypoints_data[k].frame < frame_count
        /\ pc = "done" =>
              /\ report.keypoints_data = keypoints_data
              /\ report.analysis = _analyze_compensation(keypoints_data)

\* C15 witness: the read failed at frame 3 of a stream that announced
\* more frames, and the report returned holds the record of frame 2
C15_Witness ==
    /\ pc = "done"
    /\ cap = "released"
    /\ error = "none"
    /\ frame_count = 3
    /\ frame_count < total_frames
    /\ Len(report.keypoints_data) = 1
    /\ report.keypoints_data[1].frame = 2

----------------------------------------------------------------------------
(* Properties of the exits of analyze_video *)

\* the invocation has returned or raised
Exited == pc \in {"done", "raised"}

\* C12: once the invocation has returned or raised, every decode handle it
\* created has been released, on the path where the source does not open
\* and on the path where the rendering or the writing of a key moment
\* raises too
C12_HandlesReleasedOnExit ==
    Exited => /\ cap \in {"none", "released"}
              /\ cap2 \in {"none", "released"}

\* C13: the invocation raises only when the video source cannot be opened
\* (lines 81-82 and 90-91); every other anomaly ends in a returned report
C13_OnlyOpenFailurePropagates ==
    /\ pc = "raised" => error \in {"FileNotFoundError", "RuntimeError"}
    /\ pc = "done" => report # None

----------------------------------------------------------------------------
(* Partial frame records in _analyze_compensation *)

\* the nine names of POSE_LANDMARKS
LandmarkNames == {POSE_LANDMARKS[i][2] : i \in DOMAIN POSE_LANDMARKS}

\* the record carries all nine named keypoints
CompleteRecord(frame_data) ==
    \A n \in LandmarkNames : HasName(frame_data, n)

\* C18: the aggregate metrics are those of the frame records that carry
\* all nine named keypoints: a record that lacks any of them, nose and
\* shoulders included, takes no part in them
C18_PartialRecordsExcluded ==
    pc = "returned" =>
        LET complete == SelectSeq(keypoints_data, CompleteRecord)
        IN  IF complete = << >>
            THEN "metrics" \notin DOMAIN analysis
            ELSE /\ "metrics" \in DOMAIN analysis
                 /\ analysis.metrics = _analyze_compensation(complete).metrics

----------------------------------------------------------------------------
(* The duration of _extract_key_moments *)

\* C19: the duration on which _extract_key_moments places its targets is
\* the number of frames sampled, those without a frame record included,
\* times the stride 2 over fps
C19_DurationFromSampledFrames ==
    (pc = "moments" /\ FGT(fps, Zero)) =>
        KeyDuration(keypoints_data, fps) = FDiv(FromInt(Len(detect_log) * 2), fps)

----------------------------------------------------------------------------
(* The sequence of _generate_mock_analysis *)

\* the y that squat_phase gives to left_hip in record i: 0.5 + squat_phase * 0.1
MockSignal(kd, i) == KpOf(kd[i], "left_hip").y

\* the number of cycles of the oscillation over the records: the records
\* at which the signal comes to lie above its mean 0.5, the record before
\* not lying above it
MockCycles(kd) ==
    Cardinality({ i \in 2..Len(kd) :
                    FGT(MockSignal(kd, i), F0_5) /\ ~FGT(MockSignal(kd, i - 1), F0_5) })

\* the records of the degraded mode: 360 of them, frames 0, 2, ..., 718,
\* time = frame / 30
MockRecordsShape(kd) ==
    /\ Len(kd) = 360
    /\ \A i \in DOMAIN kd :
          /\ kd[i].frame = 2 * (i - 1)
          /\ kd[i].time = FDiv(FromInt(kd[i].frame), F30_0)

\* C20: the report of the degraded mode holds 360 records with frames
\* 0, 2, ..., 718 and time = frame / 30, and the oscillation of the hip and
\* knee positions completes exactly 6 cycles over these records
C20_MockSixCycles ==
    (pc = "done" /\ ~detector) =>
        /\ MockRecordsShape(report.keypoints_data)
        /\ MockCycles(report.keypoints_data) = 6

----------------------------------------------------------------------------
(* Properties of _draw_skeleton_on_frame *)

\* the side of the body a keypoint name belongs to
SideOf(name) ==
    IF name \in LeftNames THEN "left"
    ELSE IF name \in RightNames THEN "right"
    ELSE "center"

\* the colour of the tier of the metrics: severity is the larger of
\* avg_hip_shift and avg_knee_asymmetry, which is over a limit iff one of
\* the two is
TierColor(metrics) ==
    LET hs == Get(metrics, "avg_hip_shift", Zero)
        ka == Get(metrics, "avg_knee_asymmetry", Zero)
    IN  IF FGT(hs, F0_02) \/ FGT(ka, F0_02) THEN <<68, 68, 255>>
        ELSE IF FGT(hs, F0_01) \/ FGT(ka, F0_01) THEN <<11, 158, 245>>
        ELSE <<136, 255, 0>>

\* the drawing was made with metrics that name the compensating side
DrawnWithSide ==
    /\ pc = "drawn"
    /\ "compensating_side" \in DOMAIN key_metrics
    /\ key_metrics["compensating_side"] \in {"left", "right"}

\* C16: with metrics that name the compensating side, every keypoint of
\* the left or right side has its filled marker and every connection of
\* one side with both ends present has its line, in the tier colour
\* (problem if severity > 0.02, else attention if severity > 0.01, else ok)
\* on the compensating side and in the ok colour on the other side
C16_SideColorsFollowTier ==
    DrawnWithSide =>
        LET ops == annotated_frame.ops
            keypoints == keypoints_data[1].keypoints
            Expected(s) == IF s = key_metrics["compensating_side"]
                           THEN TierColor(key_metrics) ELSE <<136, 255, 0>>
            Marker(o) == o.op = "circle" /\ o.thickness = -1
            Segment(o) == o.op = "line" /\ "limb" \in DOMAIN o
                          /\ SideOf(o.limb[1]) = SideOf(o.limb[2])
        IN  /\ \A k \in DOMAIN ops :
                  /\ (Marker(ops[k]) /\ SideOf(ops[k].name) # "center") =>
                        ops[k].color = Expected(SideOf(ops[k].name))
                  /\ Segment(ops[k]) => ops[k].color = Expected(SideOf(ops[k].limb[1]))
            /\ \A i \in DOMAIN keypoints :
                  \E k \in DOMAIN ops : Marker(ops[k]) /\ ops[k].name = keypoints[i].name
            /\ \A i, j \in DOMAIN keypoints :
                  LET a == keypoints[i].name
                      b == keypoints[j].name
                  IN  (<<a, b>> \in { <<"left_shoulder", "left_hip">>,
                                      <<"left_hip", "left_knee">>,
                                      <<"left_knee", "left_ankle">>,
                                      <<"right_shoulder", "right_hip">>,
                                      <<"right_hip", "right_knee">>,
                                      <<"right_knee", "right_ankle">> }) =>
                         \E k \in DOMAIN ops : Segment(ops[k]) /\ ops[k].limb = <<a, b>>

\* C16 witness: severity 1/64 is in the attention tier, the knee asymmetry
\* being exactly 0.01, and the right side compensates: the right knee is
\* marked in the attention colour, the left knee in the ok colour, and the
\* right thigh is drawn in the attention colour
C16_Witness ==
    /\ DrawnWithSide
    /\ key_metrics["compensating_side"] = "right"
    /\ key_metrics["avg_hip_shift"] = Dec(1, 64)
    /\ key_metrics["avg_knee_asymmetry"] = F0_01
    /\ \E k \in DOMAIN annotated_frame.ops :
          LET o == annotated_frame.ops[k]
          IN  o.op = "circle" /\ o.thickness = -1 /\ o.name = "right_knee"
                 /\ o.color = <<11, 158, 245>>
    /\ \E k \in DOMAIN annotated_frame.ops :
          LET o == annotated_frame.ops[k]
          IN  o.op = "circle" /\ o.thickness = -1 /\ o.name = "left_knee"
                 /\ o.color = <<136, 255, 0>>
    /\ \E k \in DOMAIN annotated_frame.ops :
          LET o == annotated_frame.ops[k]
          IN  o.op = "line" /\ "limb" \in DOMAIN o
                 /\ o.limb = <<"right_hip", "right_knee">>
                 /\ o.color = <<11, 158, 245>>

\* C17: the call leaves the frame it is given as it was, and returns
\* another array with the shape of that frame
C17_InputFrameUnchanged ==
    [][pc = "draw_call" =>
          /\ key_frame' = key_frame
          /\ annotated_frame'.id # key_frame.id
          /\ annotated_frame'.shape = key_frame.shape
          /\ annotated_frame'.base = key_frame.base]_vars

\* C17 witness: a drawing of 1280 x 720 was returned with calls applied to
\* it, and the frame given holds none of them
C17_Witness ==
    /\ pc = "drawn"
    /\ key_frame.shape = <<720, 1280>>
    /\ key_frame.ops = << >>
    /\ annotated_frame.shape = <<720, 1280>>
    /\ Len(annotated_frame.ops) > 20

----------------------------------------------------------------------------
(* Properties of the decode handles *)

\* C21: at most one decode handle is open at any time: the handle of
\* _extract_key_moments is open only once the handle of the sampling loop
\* is released, and an invocation in degraded mode or on a path that does
\* not exist creates no handle
C21_AtMostOneHandleOpen ==
    /\ ~(cap = "open" /\ cap2 = "open")
    /\ cap2 # "none" => cap = "released"
    /\ (~path_exists \/ ~detector) => (cap = "none" /\ cap2 = "none")

\* C21 witness: the key-moment handle is open, after a read for a key
\* moment, with the sampling handle released
C21_Witness ==
    /\ pc = "moments"
    /\ cap = "released"
    /\ cap2 = "open"
    /\ Len(reseeks) = 1

----------------------------------------------------------------------------
(* Key moments of a source that reports no fps *)

\* C22: with fps = 0 and at least one frame record, every record has time
\* 0, the duration and the three targets are 0, every target selects the
\* first record, and the key moments all carry the frame index of the
\* first record and time 0, and differ in label, type and image name
C22_ZeroFpsSelectsFirstRecord ==
    (fps = Zero /\ keypoints_data # << >>) =>
        /\ \A k \in DOMAIN keypoints_data : keypoints_data[k].time = Zero
        /\ KeyDuration(keypoints_data, fps) = Zero
        /\ \A m \in DOMAIN key_times :
              /\ TargetTime(keypoints_data, fps, m) = Zero
              /\ ClosestIndex(keypoints_data, fps, m) = 1
        /\ \A m \in DOMAIN reseeks :
              /\ reseeks[m].index = 1
              /\ reseeks[m].frame = keypoints_data[1].frame
        /\ \A k \in DOMAIN key_moments :
              /\ key_moments[k].frame = keypoints_data[1].frame
              /\ key_moments[k].time = Zero
        /\ \A j, k \in DOMAIN key_moments :
              j # k => /\ key_moments[j].label # key_moments[k].label
                       /\ key_moments[j].type # key_moments[k].type
                       /\ key_moments[j].image # key_moments[k].image
        /\ pc = "done" => report.key_moments = key_moments

\* C22 witness: at fps = 0 a run with two frame records, the first of
\* frame 2, returned three key moments, all of frame 2
C22_Witness ==
    /\ pc = "done"
    /\ detector
    /\ cap = "released"
    /\ fps = Zero
    /\ Len(keypoints_data) = 2
    /\ keypoints_data[1].frame = 2
    /\ Len(report.key_moments) = 3
    /\ \A k \in 1..3 : report.key_moments[k].frame = 2 /\ report.key_moments[k].time = Zero

====
